---- MODULE Spec2Model ----
(***************************************************************************)
(* Lagerverwaltung: the local data layer of the inventory intake tracker.  *)
(*                                                                         *)
(* The model follows the browser program's event loop.  A handler runs     *)
(* until it reaches a wait that only a later task can end (a cursor or a   *)
(* count request wrapped in a Promise: iterIndex, countImages).  The       *)
(* wrapper's writes (add, put, delete) are awaited on the request object   *)
(* itself, which is not a promise: the handler goes on in the same task,   *)
(* the write is queued in a transaction of its own, and its outcome is     *)
(* never looked at.  The writes one handler issues between two waits are   *)
(* therefore one action here, applied in the order issued, each in its own *)
(* transaction: a write the store rejects changes nothing and the handler  *)
(* continues with the next one.                                            *)
(***************************************************************************)
EXTENDS Integers, Sequences, FiniteSets, Bags, TLC

(* ---------------- bounds of the model ---------------- *)
MaxDocs    == 2    \* documents created
MaxBlobs   == 2    \* captures taken over a run
MaxLogs    == 5    \* log entries written
MaxSubs    == 2    \* handleSubmit invocations in flight
MaxSaves   == 2    \* saveAll invocations in flight
MaxLen     == 2    \* length of the strings given to normLs
MaxFaults  == 1    \* storage failures injected (SpecFail only)
MaxClicks  == 2    \* list click handlers in flight
MaxBumps   == 1    \* bumpSyncBadge invocations in flight
MaxEdge    == 5001 \* longest edge of the images given to the camera code
MaxShots   == 2    \* take, onFilePicked and rotateLast invocations in flight
MaxLines   == 3    \* ids U.uuid() can give a cart line
MaxAdds    == 2    \* btnToCart handlers in flight
MaxQty     == 3    \* clicks on btnToCart
MaxItems   == 6    \* items on the board
MaxTries   == 2    \* board operations, logins and toggle changes each
MaxReqs    == 2    \* fetch handlers of the service worker in flight
MaxFetches == 3    \* requests the service worker sees

(* ---------------- strings: sequences of one-character strings -------- *)
Alphabet == {"a", "A", "1", "-", "_", ".", " ", "<", ">"}

RECURSIVE StrsOfLen(_)
StrsOfLen(n) ==
  IF n = 0 THEN {<< >>}
  ELSE {Append(s, c) : s \in StrsOfLen(n - 1), c \in Alphabet}

Strs == UNION {StrsOfLen(n) : n \in 0..MaxLen}

IsSpace(c) == c = " "

\* String.prototype.toUpperCase on one character of the alphabet
UpperChar(c) == IF c = "a" THEN "A" ELSE c

toUpperCase(s) == [i \in 1..Len(s) |-> UpperChar(s[i])]

\* s.replace(/[<>]/g, "")
sanitize(s) == SelectSeq(s, LAMBDA c : c \notin {"<", ">"})

\* the separator class without the underscore
stripSeparatorsNoUnderscore(s) ==
  SelectSeq(s, LAMBDA c : ~(IsSpace(c) \/ c \in {".", "-"}))

\* s.replace(/[\s._-]+/g, ""): every run of separators is removed
stripSeparators(s) ==
  SelectSeq(s, LAMBDA c : ~(IsSpace(c) \/ c \in {".", "_", "-"}))

normLs(s) == toUpperCase(stripSeparators(sanitize(s)))

\* String.prototype.trim
RECURSIVE trim(_)
trim(s) ==
  IF s = << >> THEN s
  ELSE IF IsSpace(Head(s)) THEN trim(Tail(s))
  ELSE IF IsSpace(s[Len(s)]) THEN trim(SubSeq(s, 1, Len(s) - 1))
  ELSE s

(* ---------------- the inbound_images object store -------------------- *)
\* a store without the unique index
IndexViolationNone(store, img) == FALSE

\* the unique index by_inbound_page: another record holds the pair already
IndexViolation(store, img) ==
  \E r \in store : /\ r.id # img.id
                   /\ r.inbound_id = img.inbound_id
                   /\ r.page_no = img.page_no

\* objectStore.add: the key must be new and the unique index must hold
addImage(store, img) ==
  IF (\E r \in store : r.id = img.id) \/ IndexViolation(store, img)
  THEN store
  ELSE store \cup {img}

\* objectStore.put: replaces the record of that key, the unique index must hold
putImage(store, img) ==
  IF IndexViolation(store, img)
  THEN store
  ELSE {r \in store : r.id # img.id} \cup {img}

deleteImage(store, id) == {r \in store : r.id # id}

\* is the write rejected by the store (key conflict or unique index)?
Rejects(store, op) ==
  CASE op.kind = "add" -> (\E r \in store : r.id = op.img.id) \/ IndexViolation(store, op.img)
    [] op.kind = "put" -> IndexViolation(store, op.img)
    [] OTHER -> FALSE

ApplyOp(store, op) ==
  CASE op.kind = "add" -> addImage(store, op.img)
    [] op.kind = "put" -> putImage(store, op.img)
    [] OTHER -> deleteImage(store, op.img.id)

\* The writes of one handler run, each in a transaction of its own, in the
\* order issued; write number failAt (0: none) is lost to a storage failure.
\* Result: the store and the number of writes the store rejected.
RECURSIVE ApplyOps(_, _, _, _)
ApplyOps(store, ops, failAt, k) ==
  IF ops = << >> THEN [st |-> store, rej |-> 0]
  ELSE LET op   == Head(ops)
           next == IF k = failAt THEN store ELSE ApplyOp(store, op)
           rest == ApplyOps(next, Tail(ops), failAt, k + 1)
       IN [st |-> rest.st,
           rej |-> rest.rej + (IF k # failAt /\ Rejects(store, op) THEN 1 ELSE 0)]

\* sort by page_no (out.sort((a, b) => a.page_no - b.page_no)); page numbers
\* of the records of one document are distinct in the store and in a view
RECURSIVE SortByPage(_)
SortByPage(S) ==
  IF S = {} THEN << >>
  ELSE LET m == CHOOSE r \in S : \A q \in S : r.page_no <= q.page_no
       IN <<m>> \o SortByPage(S \ {m})

SeqToSet(s) == {s[i] : i \in 1..Len(s)}

listImages(store, inbound_id) ==
  SortByPage({r \in store : r.inbound_id = inbound_id})

countImages(store, inbound_id) ==
  Cardinality({r \in store : r.inbound_id = inbound_id})

MaxOf(S) == CHOOSE m \in S : \A x \in S : x <= m


RemoveAt(s, i) == SubSeq(s, 1, i - 1) \o SubSeq(s, i + 1, Len(s))

\* the ids of a set of documents in the order created (created_at)
SortIds(S) ==
  CHOOSE q \in [1..Cardinality(S) -> S] :
    \A i, j \in 1..Cardinality(S) : i < j => q[i] < q[j]

(* ---------------- the inbound_docs object store ---------------------- *)
\* objectStore.add on keyPath id
addInboundDoc(store, doc) ==
  IF \E d \in store : d.id = doc.id THEN store ELSE store \cup {doc}

\* index by_lsnorm, IDBKeyRange.only(lsnorm)
findInboundByLs(store, lsnorm) == {d \in store : d.ls_nr_normalized = lsnorm}

\* checkDuplicate comparing the supplier only
checkDuplicateNoDate(store, lsNr, supplier, date) ==
  \E d \in findInboundByLs(store, normLs(lsNr)) : d.supplier = supplier

checkDuplicate(store, lsNr, supplier, date) ==
  LET norm == normLs(lsNr)
      list == findInboundByLs(store, norm)
  IN \E d \in list : d.supplier = supplier /\ d.date_doc = date

(* ---------------- state ---------------------------------------------- *)
VARIABLES
  docs,        \* object store inbound_docs
  images,      \* object store inbound_images
  logs,        \* object store logs: a bag of entries (id and ts left out)
  chkForce,    \* el.chkForce.checked
  dupWarning,  \* el.dupWarning is shown
  subs,        \* handleSubmit invocations in flight, oldest first
  camInbound,  \* Camera state.inboundId
  captures,    \* Camera state.captures
  dlgOpen,     \* el.dlg (dlgCamera) is shown modally
  saves,       \* saveAll invocations in flight, oldest first
  view,        \* the manage-images view in el.results: its closure (imgs, sel)
  nextBlob,    \* number of the next capture
  faults,      \* storage failures still to come
  forced,      \* history: documents created while chkForce was checked
  hist,        \* history: the last handler step that wrote to a store
  nrm,         \* SpecNorm: strings and what normLs made of them
  clicks,      \* list click handlers in flight, oldest first
  dlgMsg,      \* el.dlgMsg is shown modally
  dlgConfirm,  \* el.dlgConfirm is shown modally: the document asked about (0: closed)
  answered,    \* history: documents for which the user answered "yes"
  bumps,       \* bumpSyncBadge invocations in flight, oldest first
  badge,       \* el.syncBadge: the number shown (-1: nothing written yet)
  online,      \* navigator.onLine
  follow,      \* are the bumpSyncBadge() runs saveAll starts followed?
  gate,        \* SpecGate: an image and what the camera made of it
  shots,       \* take, onFilePicked and rotateLast invocations in flight
  meta,        \* per blob: its pixel size and the fields of the capture made with it
  cart,        \* object store cart
  adds,        \* btnToCart / onTableInput handlers in flight
  order,       \* history: the ids of the cart lines in the order first added
  added,       \* history: the quantity Cart.add was called with, per name
  exported,    \* the lines the last export wrote
  dnd_items,   \* object store dnd_items
  booted,      \* App.boot has run to its end
  dlgPrompt,   \* el.dlgPrompt is shown modally
  lastOp,      \* history: the number of board operations handled and the last
  admin,       \* App: let admin
  pinHash,     \* localStorage admin_pin_hash (<< >>: not set)
  settings,    \* object store settings: the keys written and their values
  toggles,     \* toggleHomeLock.checked, toggleOverride.checked
  lastLogin,   \* history: the number of logins handled and the PIN of the last
  flips,       \* history: the number of changes of a toggle handled
  cacheNames,  \* sw.js: the names caches.keys() gives
  cache,       \* sw.js: the cache CACHE, a response or NoResponse per URL
  swState,     \* sw.js: the service worker's state
  reqs,        \* sw.js: fetch handlers waiting for the network
  lastAnswer   \* history: the number of requests seen and how the last was answered

vars == <<docs, images, logs, chkForce, dupWarning, subs, camInbound, captures,
          dlgOpen, saves, view, nextBlob, faults, forced, hist, nrm,
          clicks, dlgMsg, dlgConfirm, answered, bumps, badge, online, follow,
          gate, shots, meta, cart, adds, order, added, exported,
          dnd_items, booted, dlgPrompt, lastOp,
          admin, pinHash, settings, toggles, lastLogin, flips,
          cacheNames, cache, swState, reqs, lastAnswer>>

listVars == <<clicks, dlgMsg, dlgConfirm, answered>>
syncVars == <<bumps, badge, online, follow>>
pureVars == <<nrm, gate>>
shotVars == <<shots, meta>>
cartVars == <<cart, adds, order, added, exported>>
boardVars == <<dnd_items, booted, dlgPrompt, lastOp>>
adminVars == <<admin, pinHash, settings, toggles, lastLogin, flips>>
swVars == <<cacheNames, cache, swState, reqs, lastAnswer>>
shopVars == <<cartVars, boardVars, adminVars, swVars>>
sideVars == <<shotVars, shopVars>>

formVars == <<chkForce, dupWarning>>
camVars  == <<camInbound, captures, dlgOpen>>

NoView == [open |-> FALSE, doc |-> 0, imgs |-> << >>, sel |-> 0]
NoHist == [op |-> "none", rej |-> 0]
NoNorm == [in |-> << >>, variant |-> << >>, out |-> << >>, twice |-> << >>,
           outVariant |-> << >>, pc |-> "off"]

InitStore ==
  /\ docs = {} /\ images = {} /\ logs = EmptyBag
  /\ chkForce = FALSE /\ dupWarning = FALSE /\ subs = << >>
  /\ camInbound = 0 /\ captures = << >> /\ dlgOpen = FALSE /\ saves = << >>
  /\ view = NoView /\ nextBlob = 1
  /\ forced = {} /\ hist = NoHist

NoGate  == [pc |-> "off"]

\* the state of the parts a specification does not follow
InitList == clicks = << >> /\ dlgMsg = FALSE /\ dlgConfirm = 0 /\ answered = {}
InitSync == bumps = << >> /\ badge = -1 /\ online = TRUE /\ follow = FALSE
InitShot == shots = << >> /\ meta = << >>
\* the lines btnToCart adds: name and note come from the document shown,
\* `${doc.supplier} - ${doc.ls_nr}` and `Datum ${doc.date_doc}`
CartKeys == {[name |-> "a", note |-> "d1"], [name |-> "a", note |-> "d2"]}

NoExport == [kind |-> "none", rows |-> << >>]
InitCart == cart = {} /\ adds = << >> /\ order = << >>
            /\ added = [k \in CartKeys |-> 0] /\ exported = NoExport
NoOp    == [n |-> 0, op |-> "none", id |-> 0, zone |-> "", asked |-> FALSE]
NoLogin == [n |-> 0, pin |-> << >>]
InitBoard == dnd_items = {} /\ booted = FALSE /\ dlgPrompt = FALSE /\ lastOp = NoOp
InitAdmin == /\ admin = FALSE /\ pinHash = << >> /\ settings = {}
             /\ toggles = [home_lock |-> FALSE, override |-> FALSE]
             /\ lastLogin = NoLogin /\ flips = 0
\* sw.js: const CACHE
CACHE == "lager-v4"

\* the URLs requested: an asset of the list ASSETS and another URL
Urls == {"/index.html", "/api"}

NoResponse == [status |-> 0, vary |-> "", v |-> 0]
NoAnswer   == [n |-> 0, method |-> "", url |-> "", by |-> "none",
               resp |-> NoResponse, neturl |-> "", net |-> NoResponse,
               had |-> NoResponse]
InitWorker == /\ cacheNames = {} /\ cache = [u \in Urls |-> NoResponse]
              /\ swState = "parsed" /\ reqs = << >> /\ lastAnswer = NoAnswer
InitSide == InitShot /\ InitCart /\ InitBoard /\ InitAdmin /\ InitWorker

Init == InitStore /\ faults = 0 /\ nrm = NoNorm /\ gate = NoGate
        /\ InitList /\ InitSide /\ InitSync

InitFail == InitStore /\ faults = MaxFaults /\ nrm = NoNorm /\ gate = NoGate
            /\ InitList /\ InitSide /\ InitSync

\* a dialog shown with showModal() makes the page behind it inert
PageInert == dlgOpen \/ dlgMsg \/ dlgConfirm # 0 \/ dlgPrompt

\* which write of a handler run a storage failure hits (0: none)
FaultChoices(n) == IF faults > 0 THEN 0..n ELSE {0}

\* the entry put in place of the collection
addLogOverwrite(log) == SetToBag({log})

\* DB.addLog: objectStore("logs").add({ id: U.uuid(), ...log, ts }); the key
\* is new, so the entry is added whatever the collection holds
addLog(log) == logs (+) SetToBag({log})

(* ---------------- handlers in flight ---------------------------------- *)
\* DB.tx: every wrapper call opens a transaction of its own.  Transactions
\* are served in the order created: of the invocations waiting for their
\* first read the oldest goes on first, and the reads an invocation issues
\* after its writes are served after the reads that were waiting then.
Waiting(q, stage) == {j \in 1..Len(q) : q[j].pc = stage}

IsOldest(q, i, stage) == q[i].pc = stage /\ \A j \in Waiting(q, stage) : i <= j

\* invocation i goes on with record r (or returns, r = << >>)
GoOn(q, i, r) ==
  LET served == [j \in 1..Len(q) |->
                   IF j # i /\ q[j].wait > 0 THEN [q[j] EXCEPT !.wait = @ - 1] ELSE q[j]]
  IN IF r = << >> THEN RemoveAt(served, i) ELSE [served EXCEPT ![i] = r]

(* ---------------- UI.handleSubmit ------------------------------------ *)
\* up to the wait in checkDuplicate (findInboundByLs opens a cursor); the
\* read transaction sees the store as it is when the lookup is issued
handleSubmit(lsRaw, supRaw, date_doc, andShoot) ==
  LET ls_nr    == trim(sanitize(lsRaw))
      supplier == trim(sanitize(supRaw))
  IN /\ ~PageInert
     /\ Len(subs) < MaxSubs
     /\ Cardinality(docs) + Cardinality(Waiting(subs, "lookup")) < MaxDocs
     /\ IF ls_nr = << >> \/ supplier = << >> \/ date_doc = ""
        THEN UNCHANGED subs
        ELSE subs' = Append(subs,
               [pc |-> "lookup", wait |-> 0, ls_nr |-> ls_nr, supplier |-> supplier,
                date_doc |-> date_doc, andShoot |-> andShoot,
                duplicate |-> checkDuplicate(docs, ls_nr, supplier, date_doc),
                docs0 |-> docs, doc |-> 0])
     /\ UNCHANGED <<docs, images, logs, formVars, camVars, saves, view,
                    nextBlob, faults, forced, hist, pureVars,
                 listVars, syncVars,
                 sideVars>>

\* U.uuid() for a document: an id no stored document has
uuid(store) == Cardinality(store) + 1

\* the override checkbox is not looked at
blockedAlways(duplicate, force) == duplicate

\* if (duplicate && !el.chkForce.checked) { ...warning...; return; }
blocked(duplicate, force) == duplicate /\ ~force

\* the normalized field copied from the field as typed
newDocRawLs(id, s) ==
  [id |-> id, ls_nr |-> s.ls_nr, ls_nr_normalized |-> s.ls_nr,
   supplier |-> s.supplier, date_doc |-> s.date_doc, status |-> "ohne_zeichnung",
   updated_by |-> "null"]

\* the document created in the other status
newDocAttached(id, s) ==
  [id |-> id, ls_nr |-> s.ls_nr, ls_nr_normalized |-> normLs(s.ls_nr),
   supplier |-> s.supplier, date_doc |-> s.date_doc, status |-> "mit_zeichnung",
   updated_by |-> "null"]

\* the document handleSubmit builds (updated_at and updated_by are null)
newDoc(id, s) ==
  [id |-> id, ls_nr |-> s.ls_nr, ls_nr_normalized |-> normLs(s.ls_nr),
   supplier |-> s.supplier, date_doc |-> s.date_doc, status |-> "ohne_zeichnung",
   updated_by |-> "null"]

\* from the result of checkDuplicate to the wait in refreshLists
handleSubmitStore(i) ==
  LET s  == subs[i]
      id == uuid(docs)
  IN /\ IsOldest(subs, i, "lookup")
     /\ IF blocked(s.duplicate, chkForce)
        THEN /\ dupWarning' = TRUE
             /\ subs' = GoOn(subs, i, << >>)
             /\ hist' = [op |-> "warn", rej |-> 0]
             /\ UNCHANGED <<docs, logs, chkForce, forced>>
        ELSE /\ BagCardinality(logs) < MaxLogs
             /\ Cardinality(docs) < MaxDocs
             /\ docs' = addInboundDoc(docs, newDoc(id, s))
             /\ logs' = addLog([action |-> "create_doc", inbound_id |-> id, image_id |-> 0])
             /\ chkForce' = FALSE
             /\ dupWarning' = FALSE
             /\ forced' = IF chkForce THEN forced \cup {id} ELSE forced
             /\ subs' = GoOn(subs, i, [s EXCEPT !.pc = "refresh", !.doc = id,
                                       !.wait = Cardinality(Waiting(subs, "lookup") \ {i})])
             /\ hist' = [op |-> "create", rej |-> 0]
     /\ UNCHANGED <<images, camVars, saves, view, nextBlob, faults, pureVars,
                 listVars, syncVars,
                 sideVars>>

\* after refreshLists: if (andShoot) Camera.open(doc.id)
handleSubmitEnd(i) ==
  LET s == subs[i]
  IN /\ s.pc = "refresh" /\ s.wait = 0
     /\ subs' = RemoveAt(subs, i)
     /\ IF s.andShoot
        THEN camInbound' = s.doc /\ captures' = << >> /\ dlgOpen' = TRUE
        ELSE UNCHANGED camVars
     /\ UNCHANGED <<docs, images, logs, formVars, saves, view,
                    nextBlob, faults, forced, hist, pureVars,
                 listVars, syncVars,
                 sideVars>>

\* the user ticks or unticks the override checkbox
toggleForce ==
  /\ ~PageInert
  /\ chkForce' = ~chkForce
  /\ UNCHANGED <<docs, images, logs, dupWarning, subs, camVars, saves, view,
                 nextBlob, faults, forced, hist, pureVars,
                 listVars, syncVars,
                 sideVars>>

(* ---------------- Camera -------------------------------------------- *)
\* btnTake / fileInput: an admitted capture is pushed to state.captures
take ==
  /\ dlgOpen
  /\ nextBlob <= MaxBlobs
  /\ captures' = Append(captures, [blob |-> nextBlob])
  /\ nextBlob' = nextBlob + 1
  /\ UNCHANGED <<docs, images, logs, formVars, subs, camInbound, dlgOpen,
                 saves, view, faults, forced, hist, pureVars,
                 listVars, syncVars,
                 sideVars>>

\* let page = existing.length ? Math.max(...existing.map(i => i.page_no)) : 0
pageStart(existing) ==
  IF Len(existing) # 0
  THEN MaxOf({existing[i].page_no : i \in 1..Len(existing)})
  ELSE 0

\* btnDone: saveAll up to the wait in DB.listImages(state.inboundId); the
\* read transaction sees the store as it is when the list is issued
saveAll ==
  /\ dlgOpen
  /\ Len(saves) < MaxSaves
  /\ saves' = Append(saves, [pc |-> "list", wait |-> 0,
                             page |-> pageStart(listImages(images, camInbound))])
  /\ UNCHANGED <<docs, images, logs, formVars, subs, camVars, view,
                 nextBlob, faults, forced, hist, pureVars,
                 listVars, syncVars,
                 sideVars>>

\* the records saveAll's loop adds: capture k gets page + k.  U.uuid() gives
\* every record a new id; a capture is saved once, so its number is the id
saveAllRecords(page) ==
  [k \in 1..Len(captures) |->
     [id |-> captures[k].blob, inbound_id |-> camInbound, page_no |-> page + k,
      synced |-> FALSE]]

\* saveAll from the result of listImages to the wait in refreshLists
saveAllStore(i) ==
  LET s    == saves[i]
      recs == saveAllRecords(s.page)
      ops  == [k \in 1..Len(recs) |-> [kind |-> "add", img |-> recs[k]]]
      entries == SetToBag({[action |-> "add_image", inbound_id |-> camInbound,
                            image_id |-> recs[k].id] : k \in 1..Len(recs)})
  IN /\ IsOldest(saves, i, "list")
     /\ BagCardinality(logs) + Len(recs) <= MaxLogs
     /\ \E failAt \in FaultChoices(Len(ops)) :
          LET res == ApplyOps(images, ops, failAt, 1)
          IN /\ images' = res.st
             /\ faults' = IF failAt = 0 THEN faults ELSE faults - 1
             /\ hist' = IF recs = << >> THEN hist ELSE [op |-> "saveAll", rej |-> res.rej]
     /\ logs' = logs (+) entries
     /\ captures' = << >>
     /\ saves' = GoOn(saves, i, [s EXCEPT !.pc = "refresh",
                                 !.wait = Cardinality(Waiting(saves, "list") \ {i})])
     /\ UNCHANGED <<docs, formVars, subs, camInbound, dlgOpen, view, nextBlob,
                    forced, pureVars,
                 listVars, syncVars,
                 sideVars>>

\* a bumpSyncBadge invocation, up to its first wait: the read of the
\* documents in status ohne_zeichnung, which sees the store as it is now
newBump(auto) ==
  [pc |-> "ohne", auto |-> auto, k |-> 0, pending |-> 0, snap |-> << >>,
   all |-> SortIds({d.id : d \in {e \in docs : e.status = "ohne_zeichnung"}})]

\* saveAll's tail, UI.bumpSyncBadge() (not awaited), then btnDone after
\* saveAll has returned: el.dlg.close(); stop().  The badge run writes
\* nothing but the badge; it is followed where follow is set
saveAllEnd(i) ==
  /\ saves[i].pc = "refresh" /\ saves[i].wait = 0
  /\ saves' = RemoveAt(saves, i)
  /\ dlgOpen' = FALSE
  /\ IF follow
     THEN Len(bumps) < MaxBumps /\ bumps' = Append(bumps, newBump(FALSE))
     ELSE UNCHANGED bumps
  /\ UNCHANGED <<docs, images, logs, formVars, subs, camInbound, captures,
                 view, nextBlob, faults, forced, hist, pureVars,
                 listVars, badge, online, follow,
                 sideVars>>

(* ---------------- UI.manageImages ------------------------------------ *)
\* a list entry's "Bilder verwalten": imgs = await DB.listImages(doc.id)
manageImages(id) ==
  /\ ~PageInert
  /\ \E d \in docs : d.id = id
  /\ view' = [open |-> TRUE, doc |-> id, imgs |-> listImages(images, id), sel |-> 0]
  /\ UNCHANGED <<docs, images, logs, formVars, subs, camVars, saves,
                 nextBlob, faults, forced, hist, pureVars,
                 listVars, syncVars,
                 sideVars>>

\* render(): imgs.sort((a, b) => a.page_no - b.page_no)
render(imgs) == SortByPage(SeqToSet(imgs))

\* click on a thumbnail: sel = i; render()   (sel here is the JS index + 1)
selectThumb(i) ==
  /\ ~PageInert
  /\ view.open
  /\ i \in 1..Len(view.imgs)
  /\ view.sel # i
  /\ view' = [view EXCEPT !.sel = i, !.imgs = render(view.imgs)]
  /\ UNCHANGED <<docs, images, logs, formVars, subs, camVars, saves,
                 nextBlob, faults, forced, hist, pureVars,
                 listVars, syncVars,
                 sideVars>>

\* btnAdd: Camera.open(doc.id)
btnAdd ==
  /\ ~PageInert
  /\ view.open
  /\ camInbound' = view.doc
  /\ captures' = << >>
  /\ dlgOpen' = TRUE
  /\ UNCHANGED <<docs, images, logs, formVars, subs, saves, view,
                 nextBlob, faults, forced, hist, pureVars,
                 listVars, syncVars,
                 sideVars>>

\* for (const im of imgs) { im.page_no = p++; ... }
renumber(imgs) == [k \in 1..Len(imgs) |-> [imgs[k] EXCEPT !.page_no = k]]

\* the writes of btnDelete, in the order issued
deleteOps(imgs, sel) ==
  LET rest == renumber(RemoveAt(imgs, sel))
  IN <<[kind |-> "delete", img |-> imgs[sel]]>>
     \o [k \in 1..Len(rest) |-> [kind |-> "put", img |-> rest[k]]]

\* btnDelete: if (sel < 0) return
btnDelete ==
  LET target == view.imgs[view.sel]
      ops    == deleteOps(view.imgs, view.sel)
  IN /\ ~PageInert
     /\ view.open
     /\ view.sel >= 1
     /\ BagCardinality(logs) < MaxLogs
     /\ \E failAt \in FaultChoices(Len(ops)) :
          LET res == ApplyOps(images, ops, failAt, 1)
          IN /\ images' = res.st
             /\ faults' = IF failAt = 0 THEN faults ELSE faults - 1
             /\ hist' = [op |-> "delete", rej |-> res.rej]
     /\ logs' = addLog([action |-> "delete_image", inbound_id |-> view.doc,
                        image_id |-> target.id])
     /\ view' = [view EXCEPT !.imgs = render(renumber(RemoveAt(view.imgs, view.sel))),
                             !.sel = 0]
     /\ UNCHANGED <<docs, formVars, subs, camVars, saves, nextBlob, forced, pureVars,
                 listVars, syncVars,
                 sideVars>>

\* [imgs[j].page_no, imgs[sel].page_no] = [imgs[sel].page_no, imgs[j].page_no]
swapPages(imgs, j, sel) ==
  [imgs EXCEPT ![j]   = [imgs[j] EXCEPT !.page_no = imgs[sel].page_no],
               ![sel] = [imgs[sel] EXCEPT !.page_no = imgs[j].page_no]]

\* await DB.putImage(imgs[j]); await DB.putImage(imgs[sel]);  (j = sel -+ 1)
reorderOps(imgs, j, sel) ==
  <<[kind |-> "put", img |-> swapPages(imgs, j, sel)[j]],
    [kind |-> "put", img |-> swapPages(imgs, j, sel)[sel]]>>

reorder(j) ==
  LET ops == reorderOps(view.imgs, j, view.sel)
  IN /\ BagCardinality(logs) < MaxLogs
     /\ \E failAt \in FaultChoices(Len(ops)) :
          LET res == ApplyOps(images, ops, failAt, 1)
          IN /\ images' = res.st
             /\ faults' = IF failAt = 0 THEN faults ELSE faults - 1
             /\ hist' = [op |-> "reorder", rej |-> res.rej]
     /\ logs' = addLog([action |-> "reorder_images", inbound_id |-> view.doc,
                        image_id |-> 0])
     /\ view' = [view EXCEPT !.imgs = render(swapPages(view.imgs, j, view.sel)),
                             !.sel = j]
     /\ UNCHANGED <<docs, formVars, subs, camVars, saves, nextBlob, forced, pureVars,
                 listVars, syncVars,
                 sideVars>>

\* btnReorderUp: if (sel <= 0) return
btnReorderUp ==
  /\ ~PageInert
  /\ view.open
  /\ view.sel >= 2
  /\ reorder(view.sel - 1)

\* btnReorderDown: if (sel < 0 || sel >= imgs.length - 1) return
btnReorderDown ==
  /\ ~PageInert
  /\ view.open
  /\ view.sel >= 1 /\ view.sel < Len(view.imgs)
  /\ reorder(view.sel + 1)

(* ---------------- UI.listClickHandler -------------------------------- *)
\* DB.getInboundById returns what objectStore.get(id) returns: the request
\* object, not the record.  An async function resolves with it as it is (it
\* has no then), so the caller's doc is the request: doc.id is undefined
getInboundById(store, id) == [request |-> id]

\* doc.status = ...; doc.updated_at = ...; doc.updated_by = App.userId()
markAttached(doc) ==
  [f \in DOMAIN doc \cup {"status", "updated_by"} |->
     IF f = "status" THEN "mit_zeichnung"
     ELSE IF f = "updated_by" THEN "user" ELSE doc[f]]

\* objectStore.put(doc): a request object cannot be cloned (DataCloneError),
\* the call throws and nothing is stored; a record replaces the one with its id
putInboundDoc(store, doc) ==
  IF "request" \in DOMAIN doc
  THEN [st |-> store, thrown |-> TRUE]
  ELSE [st |-> {d \in store : d.id # doc.id} \cup {doc}, thrown |-> FALSE]

\* confirm(text): return await el.dlgConfirm.showModal().  showModal() shows
\* the dialog and returns undefined at once; what the user answers later
\* reaches nobody
confirm == "undefined"

\* the status written whatever the pages and the answer
confirmDrawingAttachedUnguarded(store, id, n, res) ==
  [st |-> {IF d.id = id THEN [d EXCEPT !.status = "mit_zeichnung", !.updated_by = "user"]
           ELSE d : d \in store},
   thrown |-> FALSE, written |-> TRUE]

\* the "open" button of a listOhne entry, from the result of listImages on:
\* what it makes of inbound_docs (n: number of images read, res: the value
\* of confirm)
confirmDrawingAttached(store, id, n, res) ==
  IF n = 0 THEN [st |-> store, thrown |-> FALSE, written |-> FALSE]
  ELSE IF res = "yes"
       THEN LET put == putInboundDoc(store, markAttached(getInboundById(store, id)))
            IN [st |-> put.st, thrown |-> put.thrown, written |-> ~put.thrown]
       ELSE [st |-> store, thrown |-> FALSE, written |-> FALSE]

\* a click on a button of a list entry, up to the wait in DB.listImages(id).
\* The entries of listMit are the documents refreshLists found in status
\* mit_zeichnung
listClick(id, act) ==
  /\ ~PageInert
  /\ Len(clicks) < MaxClicks
  /\ \E d \in docs : d.id = id
  /\ clicks' = Append(clicks,
       [pc |-> "images", wait |-> 0, id |-> id, act |-> act,
        isOhne |-> \E d \in docs : d.id = id /\ d.status = "ohne_zeichnung",
        n |-> Len(listImages(images, id))])
  /\ UNCHANGED <<docs, images, logs, formVars, subs, camVars, saves, view,
                 nextBlob, faults, forced, hist, pureVars, dlgMsg, dlgConfirm,
                 answered, syncVars,
                 sideVars>>

\* the handler from the result of listImages to its end
listClickGo(i) ==
  LET c   == clicks[i]
      res == confirmDrawingAttached(docs, c.id, c.n, confirm)
  IN /\ IsOldest(clicks, i, "images")
     /\ clicks' = GoOn(clicks, i, << >>)
     /\ IF c.act = "open" /\ c.isOhne
        THEN /\ docs' = res.st
             /\ IF res.written
                THEN /\ BagCardinality(logs) < MaxLogs
                     /\ logs' = addLog([action |-> "status_change",
                                        inbound_id |-> c.id, image_id |-> 0])
                ELSE UNCHANGED logs
             /\ IF c.n = 0
                THEN \* await message(...); Camera.open(id)
                     /\ dlgMsg' = TRUE
                     /\ camInbound' = c.id /\ captures' = << >> /\ dlgOpen' = TRUE
                     /\ UNCHANGED dlgConfirm
                ELSE \* await confirm(...)
                     /\ dlgConfirm' = IF dlgConfirm = 0 THEN c.id ELSE dlgConfirm
                     /\ UNCHANGED <<dlgMsg, camVars>>
        ELSE \* showDetail(doc), manageImages(doc): doc.id is undefined,
             \* IDBKeyRange.only(undefined) throws, nothing is shown
             UNCHANGED <<docs, logs, dlgMsg, dlgConfirm, camVars>>
     /\ UNCHANGED <<images, formVars, subs, saves, view, nextBlob, faults,
                    forced, hist, pureVars, answered, syncVars,
                 sideVars>>

\* the user closes the message dialog
closeMsg ==
  /\ dlgMsg /\ ~dlgOpen
  /\ dlgMsg' = FALSE
  /\ UNCHANGED <<docs, images, logs, formVars, subs, camVars, saves, view,
                 nextBlob, faults, forced, hist, pureVars, clicks, dlgConfirm,
                 answered, syncVars,
                 sideVars>>

\* the user answers the confirm dialog, which closes it
answerConfirm(v) ==
  /\ dlgConfirm # 0 /\ ~dlgOpen
  /\ dlgConfirm' = 0
  /\ answered' = IF v = "yes" THEN answered \cup {dlgConfirm} ELSE answered
  /\ UNCHANGED <<docs, images, logs, formVars, subs, camVars, saves, view,
                 nextBlob, faults, forced, hist, pureVars, clicks, dlgMsg,
                 syncVars,
                 sideVars>>

(* ---------------- UI.bumpSyncBadge ------------------------------------ *)
\* the image records that are not synced
Unsynced(store) == {r \in store : ~r.synced}

\* the read of the images of document all[k], issued now
bumpRead(b, k, stage) ==
  [b EXCEPT !.pc = stage, !.k = k, !.snap = listImages(images, b.all[k])]

\* window "online" event: setOnlineUi(); bumpSyncBadge(true)
goOnline ==
  /\ ~online
  /\ Len(bumps) < MaxBumps
  /\ online' = TRUE
  /\ bumps' = Append(bumps, newBump(TRUE))
  /\ UNCHANGED <<docs, images, logs, formVars, subs, camVars, saves, view,
                 nextBlob, faults, forced, hist, pureVars, listVars, badge, follow,
                 sideVars>>

\* window "offline" event: setOnlineUi
goOffline ==
  /\ online
  /\ online' = FALSE
  /\ UNCHANGED <<docs, images, logs, formVars, subs, camVars, saves, view,
                 nextBlob, faults, forced, hist, pureVars, listVars, bumps,
                 badge, follow,
                 sideVars>>

\* ohne has been read: the read of the documents in status mit_zeichnung
bumpOhne(i) ==
  /\ IsOldest(bumps, i, "ohne")
  /\ bumps' = [bumps EXCEPT ![i] =
       [@ EXCEPT !.pc = "mit",
                 !.snap = SortIds({d.id : d \in {e \in docs : e.status = "mit_zeichnung"}})]]
  /\ UNCHANGED <<docs, images, logs, formVars, subs, camVars, saves, view,
                 nextBlob, faults, forced, hist, pureVars, listVars, badge,
                 online, follow,
                 sideVars>>

\* mit has been read: all = [...ohne, ...mit]; the counting loop starts
bumpMit(i) ==
  LET b   == bumps[i]
      all == b.all \o b.snap
  IN /\ IsOldest(bumps, i, "mit")
     /\ IF all = << >>
        THEN /\ badge' = 0
             /\ bumps' = RemoveAt(bumps, i)
        ELSE /\ bumps' = [bumps EXCEPT ![i] = bumpRead([b EXCEPT !.all = all], 1, "count")]
             /\ UNCHANGED badge
     /\ UNCHANGED <<docs, images, logs, formVars, subs, camVars, saves, view,
                    nextBlob, faults, forced, hist, pureVars, listVars,
                    online, follow,
                 sideVars>>

\* the images of all[k] have been read: pending += their unsynced ones; after
\* the last document the badge is written, and if (auto && navigator.onLine
\* && pending) the run goes to sleep(300)
bumpCount(i) ==
  LET b       == bumps[i]
      pending == b.pending + Cardinality(Unsynced(SeqToSet(b.snap)))
  IN /\ IsOldest(bumps, i, "count")
     /\ IF b.k < Len(b.all)
        THEN /\ bumps' = [bumps EXCEPT ![i] =
                            bumpRead([b EXCEPT !.pending = pending], b.k + 1, "count")]
             /\ UNCHANGED badge
        ELSE /\ badge' = pending
             /\ bumps' = IF b.auto /\ online /\ pending # 0
                         THEN [bumps EXCEPT ![i] =
                                 [b EXCEPT !.pc = "sleep300", !.pending = pending,
                                           !.snap = << >>]]
                         ELSE RemoveAt(bumps, i)
     /\ UNCHANGED <<docs, images, logs, formVars, subs, camVars, saves, view,
                    nextBlob, faults, forced, hist, pureVars, listVars,
                    online, follow,
                 sideVars>>

\* sleep(300) is over: the acknowledge loop starts
bumpWake(i) ==
  /\ bumps[i].pc = "sleep300"
  /\ bumps' = [bumps EXCEPT ![i] = bumpRead(@, 1, "ack")]
  /\ UNCHANGED <<docs, images, logs, formVars, subs, camVars, saves, view,
                 nextBlob, faults, forced, hist, pureVars, listVars, badge,
                 online, follow,
                 sideVars>>

\* the requests of the acknowledge loop for one document:
\* if (!im.synced) { im.synced = true; await DB.putImage(im); }
ackOps(imgs) ==
  LET todo == SelectSeq(imgs, LAMBDA im : ~im.synced)
  IN [k \in 1..Len(todo) |-> [kind |-> "put", img |-> [todo[k] EXCEPT !.synced = TRUE]]]

\* the images of all[k] have been read: the unsynced ones are put back with
\* synced = true; after the last document the run goes to sleep(100)
bumpAck(i) ==
  LET b   == bumps[i]
      res == ApplyOps(images, ackOps(b.snap), 0, 1)
  IN /\ IsOldest(bumps, i, "ack")
     /\ images' = res.st
     /\ hist' = IF ackOps(b.snap) = << >> THEN hist ELSE [op |-> "ack", rej |-> res.rej]
     /\ bumps' = [bumps EXCEPT ![i] =
                    IF b.k < Len(b.all) THEN bumpRead(b, b.k + 1, "ack")
                    ELSE [b EXCEPT !.pc = "sleep100", !.snap = << >>]]
     /\ UNCHANGED <<docs, logs, formVars, subs, camVars, saves, view,
                    nextBlob, faults, forced, pureVars, listVars, badge,
                    online, follow,
                 sideVars>>

\* sleep(100) is over: el.syncBadge.textContent = "0"
bumpEnd(i) ==
  /\ bumps[i].pc = "sleep100"
  /\ badge' = 0
  /\ bumps' = RemoveAt(bumps, i)
  /\ UNCHANGED <<docs, images, logs, formVars, subs, camVars, saves, view,
                 nextBlob, faults, forced, hist, pureVars, listVars,
                 online, follow,
                 sideVars>>

(* ---------------- the program --------------------------------------- *)
\* Spec, SpecSeq, SpecFail: the form is filled with one document number, one
\* supplier and one of two dates
PageLs    == <<"A", "-", "1">>
PageSup   == <<"a">>
PageDates == {"2024-01-01", "2024-01-02"}

\* what the user does (clicks)
UserStep ==
  \/ \E d \in PageDates, a \in BOOLEAN : handleSubmit(PageLs, PageSup, d, a)
  \/ take
  \/ saveAll
  \/ \E id \in 1..MaxDocs : manageImages(id)
  \/ \E i \in 1..MaxBlobs : selectThumb(i)
  \/ btnAdd
  \/ btnDelete
  \/ btnReorderUp
  \/ btnReorderDown

\* a handler in flight goes on when the read it waits for has been served
HandlerStep ==
  \/ \E i \in 1..Len(subs) : handleSubmitStore(i)
  \/ \E i \in 1..Len(subs) : handleSubmitEnd(i)
  \/ \E i \in 1..Len(saves) : saveAllStore(i)
  \/ \E i \in 1..Len(saves) : saveAllEnd(i)

\* no handler is in flight
Quiescent == subs = << >> /\ saves = << >> /\ clicks = << >> /\ bumps = << >>

Next == UserStep \/ HandlerStep

\* the program, any interleaving of clicks and handlers in flight
Spec == Init /\ [][Next]_vars

\* the user waits for every handler to finish before the next click
NextSeq == (Quiescent /\ UserStep) \/ HandlerStep

SpecSeq == Init /\ [][NextSeq]_vars

\* as SpecSeq, with storage failures
SpecFail == InitFail /\ [][NextSeq]_vars

\* SpecForm: the form, filled with any of these, and its checkbox; the camera
\* dialog is closed again without a capture
FormInputs ==
  { << <<"A", "-", "1">>, <<"a">>, "2024-01-01" >>,
    << <<"a", " ", "1">>, <<"a">>, "2024-01-01" >>,
    << <<"a", " ", "1">>, <<"A">>, "2024-01-01" >>,
    << <<"A", "-", "1">>, <<"a">>, "2024-01-02" >>,
    << <<"1">>, <<"a">>, "2024-01-01" >>,
    << <<"<", ">", " ">>, <<"a">>, "2024-01-01" >>,
    << <<"1">>, <<" ">>, "2024-01-01" >>,
    << <<"1">>, <<"a">>, "" >> }

NextForm ==
  \/ \E in \in FormInputs, a \in BOOLEAN : handleSubmit(in[1], in[2], in[3], a)
  \/ toggleForce
  \/ \E i \in 1..Len(subs) : handleSubmitStore(i)
  \/ \E i \in 1..Len(subs) : handleSubmitEnd(i)
  \/ saveAll
  \/ \E i \in 1..Len(saves) : saveAllStore(i)
  \/ \E i \in 1..Len(saves) : saveAllEnd(i)

SpecForm == Init /\ [][NextForm]_vars

\* SpecList: the form, the lists and the camera
ListInputs ==
  { << <<"a", " ", "1">>, <<"a">>, "2024-01-01" >>,
    << <<"A", "-", "1">>, <<"a">>, "2024-01-02" >> }

NextList ==
  \/ \E in \in ListInputs : handleSubmit(in[1], in[2], in[3], FALSE)
  \/ \E i \in 1..Len(subs) : handleSubmitStore(i)
  \/ \E i \in 1..Len(subs) : handleSubmitEnd(i)
  \/ \E id \in 1..MaxDocs, act \in {"open", "manage"} : listClick(id, act)
  \/ \E i \in 1..Len(clicks) : listClickGo(i)
  \/ closeMsg
  \/ \E v \in {"yes", "no"} : answerConfirm(v)
  \/ take
  \/ saveAll
  \/ \E i \in 1..Len(saves) : saveAllStore(i)
  \/ \E i \in 1..Len(saves) : saveAllEnd(i)

SpecList == Init /\ [][NextList]_vars

\* SpecSync: documents, the camera, connectivity and the badge
InitFollow ==
  /\ InitStore /\ faults = 0 /\ nrm = NoNorm /\ gate = NoGate /\ InitList /\ InitSide
  /\ bumps = << >> /\ badge = -1 /\ online = TRUE /\ follow = TRUE

BumpStep ==
  \/ \E i \in 1..Len(bumps) : bumpOhne(i)
  \/ \E i \in 1..Len(bumps) : bumpMit(i)
  \/ \E i \in 1..Len(bumps) : bumpCount(i)
  \/ \E i \in 1..Len(bumps) : bumpWake(i)
  \/ \E i \in 1..Len(bumps) : bumpAck(i)
  \/ \E i \in 1..Len(bumps) : bumpEnd(i)

\* the form and the camera are used one handler at a time; the badge runs
\* go on behind them
Idle == subs = << >> /\ saves = << >>

NextSync ==
  \/ Idle /\ \E d \in PageDates : handleSubmit(PageLs, PageSup, d, TRUE)
  \/ \E i \in 1..Len(subs) : handleSubmitStore(i)
  \/ \E i \in 1..Len(subs) : handleSubmitEnd(i)
  \/ Idle /\ take
  \/ Idle /\ saveAll
  \/ \E i \in 1..Len(saves) : saveAllStore(i)
  \/ \E i \in 1..Len(saves) : saveAllEnd(i)
  \/ goOnline
  \/ goOffline
  \/ BumpStep

SpecSync == InitFollow /\ [][NextSync]_vars

\* SpecAck: one document, the camera, the manage-images view, connectivity
\* and the acknowledge runs the online event starts
NextAck ==
  \/ Idle /\ handleSubmit(PageLs, PageSup, "2024-01-01", TRUE)
  \/ \E i \in 1..Len(subs) : handleSubmitStore(i)
  \/ \E i \in 1..Len(subs) : handleSubmitEnd(i)
  \/ Idle /\ take
  \/ Idle /\ saveAll
  \/ \E i \in 1..Len(saves) : saveAllStore(i)
  \/ \E i \in 1..Len(saves) : saveAllEnd(i)
  \/ Idle /\ \E id \in 1..MaxDocs : manageImages(id)
  \/ Idle /\ \E i \in 1..MaxBlobs : selectThumb(i)
  \/ Idle /\ btnAdd
  \/ Idle /\ btnDelete
  \/ Idle /\ btnReorderUp
  \/ Idle /\ btnReorderDown
  \/ goOnline
  \/ goOffline
  \/ BumpStep

SpecAck == Init /\ [][NextAck]_vars

(* ---------------- SpecNorm: normLs on given strings -------------------- *)
LowerChar(c) == IF c = "A" THEN "a" ELSE c

\* a string without its separators and folded to lower case
Fold(s) ==
  LET t == SelectSeq(s, LAMBDA c : c \notin {" ", "-", "_", "."})
  IN [i \in 1..Len(t) |-> LowerChar(t[i])]

\* the strings that differ from n only in case, whitespace, '-', '_' or '.'
Variants(n) == {v \in Strs : Fold(v) = Fold(n)}

InitNorm ==
  /\ InitStore /\ faults = 0 /\ gate = NoGate /\ InitList /\ InitSide /\ InitSync
  /\ \E n \in Strs : \E v \in Variants(n) :
       nrm = [in |-> n, variant |-> v, out |-> << >>, twice |-> << >>,
              outVariant |-> << >>, pc |-> "in"]

normOnce ==
  /\ nrm.pc = "in"
  /\ nrm' = [nrm EXCEPT !.out = normLs(nrm.in), !.outVariant = normLs(nrm.variant),
                        !.pc = "once"]
  /\ UNCHANGED <<docs, images, logs, formVars, subs, camVars, saves, view,
                 nextBlob, faults, forced, hist, gate, listVars, syncVars,
                 sideVars>>

normTwice ==
  /\ nrm.pc = "once"
  /\ nrm' = [nrm EXCEPT !.twice = normLs(nrm.out), !.pc = "twice"]
  /\ UNCHANGED <<docs, images, logs, formVars, subs, camVars, saves, view,
                 nextBlob, faults, forced, hist, gate, listVars, syncVars,
                 sideVars>>

NextNorm == normOnce \/ normTwice

SpecNorm == InitNorm /\ [][NextNorm]_vars

PagesOf(store, d) == {r.page_no : r \in {q \in store : q.inbound_id = d}}

Dense(store, d) == PagesOf(store, d) = 1..countImages(store, d)

\* is the view's list what the store holds for its document?
ViewFresh == view.imgs = listImages(images, view.doc)

(* ---------------- SpecScale, SpecGate: the camera's image code --------- *)
\* const max = 2500 in captureVideoToBlob and drawBitmapToBlob
max == 2500

\* the resolution threshold of take and validateBlob
MinEdge == 1500

\* the sharpness threshold of validateBlob
MinScore == 60

Longer(w, h)  == IF w >= h THEN w ELSE h
Shorter(w, h) == IF w >= h THEN h ELSE w

\* an edge scaled up, whatever the size
scaledAlways(n, L) == {(2 * n * max + L) \div (2 * L)}

\* Math.round(n * scale), scale = Math.min(1, max / L), L the longer edge.
\* The product is a double: off a tie it rounds as the exact quotient does,
\* on a tie (n * max / L = k + 1/2) it may have come out on either side
scaled(n, L) ==
  IF L <= max THEN {n}
  ELSE LET q == (2 * n * max) \div L
       IN IF (2 * n * max) % L = 0 /\ q % 2 = 1
          THEN {(q - 1) \div 2, (q + 1) \div 2}
          ELSE {(q + 1) \div 2}

\* the edges tried: around the thresholds, very small, and the two ends of
\* the range
Edges == {1, 2, 3, 1499, 1500, 1501, 1875, 2499, 2500, 2501, 3000, 3750,
          4000, 5000, MaxEdge}

\* SpecScale: every size with one edge of Edges and the other of 1..MaxEdge
Sizes == ((1..MaxEdge) \X Edges) \cup (Edges \X (1..MaxEdge))

NoResult == [w |-> 0, h |-> 0]

InitScale ==
  /\ InitStore /\ faults = 0 /\ nrm = NoNorm /\ InitList /\ InitSide /\ InitSync
  /\ \E sz \in Sizes :
       gate = [pc |-> "in", w |-> sz[1], h |-> sz[2], out |-> NoResult]

\* captureVideoToBlob / drawBitmapToBlob: the size of the canvas drawn
drawBitmapToBlob ==
  /\ gate.pc = "in"
  /\ \E w \in scaled(gate.w, Longer(gate.w, gate.h)),
        h \in scaled(gate.h, Longer(gate.w, gate.h)) :
       gate' = [gate EXCEPT !.pc = "drawn", !.out = [w |-> w, h |-> h]]
  /\ UNCHANGED <<docs, images, logs, formVars, subs, camVars, saves, view,
                 nextBlob, faults, forced, hist, nrm, listVars, syncVars,
                 sideVars>>

SpecScale == InitScale /\ [][drawBitmapToBlob]_vars

\* the scores tried (laplacianVariance of the re-encoded image)
Scores == {0, MinScore - 1, MinScore, MinScore + 1}

InitGate ==
  /\ InitStore /\ faults = 0 /\ nrm = NoNorm /\ InitList /\ InitSide /\ InitSync
  /\ \E w \in Edges, h \in Edges, sc \in Scores :
       gate = [pc |-> "in", w |-> w, h |-> h, score |-> sc, out |-> NoResult,
               admitted |-> FALSE]

\* validateBlob, the score of the blob given: canvas.toBlob gives null for a
\* canvas without pixels, createImageBitmap(null) throws and the caller ends
validateBlobLax(out, sc) == out.w > 0 /\ out.h > 0 /\ sc >= MinScore

validateBlob(out, sc) ==
  /\ out.w > 0 /\ out.h > 0
  /\ ~(Longer(out.w, out.h) < MinEdge)
  /\ sc >= MinScore

\* Camera.take with a stream: the capture is pushed if ok
takeVideo ==
  /\ gate.pc = "in"
  /\ IF Longer(gate.w, gate.h) < MinEdge
     THEN gate' = [gate EXCEPT !.pc = "video"]
     ELSE \E w \in scaled(gate.w, Longer(gate.w, gate.h)),
             h \in scaled(gate.h, Longer(gate.w, gate.h)) :
            gate' = [gate EXCEPT !.pc = "video", !.out = [w |-> w, h |-> h],
                       !.admitted = validateBlob([w |-> w, h |-> h], gate.score)]
  /\ UNCHANGED <<docs, images, logs, formVars, subs, camVars, saves, view,
                 nextBlob, faults, forced, hist, nrm, listVars, syncVars,
                 sideVars>>

\* Camera.onFilePicked: the decoded file is pushed if ok
onFilePicked ==
  /\ gate.pc = "in"
  /\ \E w \in scaled(gate.w, Longer(gate.w, gate.h)),
        h \in scaled(gate.h, Longer(gate.w, gate.h)) :
       gate' = [gate EXCEPT !.pc = "file", !.out = [w |-> w, h |-> h],
                  !.admitted = validateBlob([w |-> w, h |-> h], gate.score)]
  /\ UNCHANGED <<docs, images, logs, formVars, subs, camVars, saves, view,
                 nextBlob, faults, forced, hist, nrm, listVars, syncVars,
                 sideVars>>

NextGate == takeVideo \/ onFilePicked

SpecGate == InitGate /\ [][NextGate]_vars

(* ---------------- SpecBlur: Camera.laplacianVariance ------------------ *)
\* const targetMax = 800
targetMax == 800

\* Math.max(1, (e * s) | 0), s = Math.min(1, targetMax / L), L the longer
\* edge.  The product is a double: where e * targetMax / L is a whole number
\* k it may have come out just below k, and | 0 then gives k - 1
lapEdge(e, L) ==
  IF L <= targetMax THEN {e}
  ELSE LET k == (e * targetMax) \div L
           atLeast1(n) == IF n < 1 THEN 1 ELSE n
       IN IF (e * targetMax) % L = 0
          THEN {atLeast1(k - 1), atLeast1(k)}
          ELSE {atLeast1(k)}

\* gray[p] of the canvas: a bitmap is flat (every pixel of gray g) or a
\* checkerboard of g and 0; only small bitmaps, drawn unscaled, are
\* checkerboards
grayAt(bmp, x, y) ==
  IF bmp.kind = "flat" \/ (x + y) % 2 = 0 THEN bmp.g ELSE 0

\* out[i]: the kernel k = [0, 1, 0, 1, -4, 1, 0, 1, 0] at an inner pixel
kernelAt(bmp, x, y) ==
  grayAt(bmp, x, y - 1) + grayAt(bmp, x - 1, y) - 4 * grayAt(bmp, x, y)
    + grayAt(bmp, x + 1, y) + grayAt(bmp, x, y + 1)

\* sum and sum2 of the loops for (y = 1; y < h - 1) for (x = 1; x < w - 1),
\* over the inner pixels lo..hi of row y and over the rows lo..hi (the range
\* is halved to keep the evaluation shallow; the order does not change a sum)
RECURSIVE rowSums(_, _, _, _)
rowSums(bmp, y, lo, hi) ==
  IF lo > hi THEN [sum |-> 0, sum2 |-> 0]
  ELSE IF lo = hi
  THEN LET v == kernelAt(bmp, lo, y) IN [sum |-> v, sum2 |-> v * v]
  ELSE LET mid == (lo + hi) \div 2
           l == rowSums(bmp, y, lo, mid)
           r == rowSums(bmp, y, mid + 1, hi)
       IN [sum |-> l.sum + r.sum, sum2 |-> l.sum2 + r.sum2]

RECURSIVE sums(_, _, _, _)
sums(bmp, w, lo, hi) ==
  IF lo > hi THEN [sum |-> 0, sum2 |-> 0]
  ELSE IF lo = hi THEN rowSums(bmp, lo, 1, w - 2)
  ELSE LET mid == (lo + hi) \div 2
           l == sums(bmp, w, lo, mid)
           r == sums(bmp, w, mid + 1, hi)
       IN [sum |-> l.sum + r.sum, sum2 |-> l.sum2 + r.sum2]

\* laplacianVariance on a canvas of w x h: n = (w - 2) * (h - 2),
\* mean = sum / n, varr = sum2 / n - mean * mean, result varr / 100, kept as
\* the fraction num / (100 * n * n); 0 / 0 is NaN
laplacianVariance(bmp, w, h) ==
  LET r == sums(bmp, w, 1, h - 2)
      n == (w - 2) * (h - 2)
  IN [nan |-> n = 0, num |-> n * r.sum2 - r.sum * r.sum, n |-> n]

\* the whole part of a score; NaN >= 60 is false, as -1 >= 60 is
wholeScore(sc) ==
  LET abs == IF sc.n < 0 THEN -sc.n ELSE sc.n
  IN IF sc.nan THEN -1 ELSE ((sc.num \div abs) \div abs) \div 100

\* the bitmaps tried: thin and small ones, and ones above the resolution floor
BlurWidths  == {1, 2, 3, 4, 5, 800, 801, 1500, 1600, 2400, 2500}
BlurHeights == 1..9
Grays       == {0, 128, 255}

InitBlur ==
  /\ InitStore /\ faults = 0 /\ nrm = NoNorm /\ InitList /\ InitSide /\ InitSync
  /\ \E w \in BlurWidths, h \in BlurHeights, g \in Grays, kind \in {"flat", "checker"} :
       /\ kind = "checker" => w <= 5 /\ g > 0
       /\ gate = [pc |-> "bmp", bmp |-> [kind |-> kind, g |-> g], w |-> w, h |-> h,
                  cw |-> 0, ch |-> 0, score |-> [nan |-> FALSE, num |-> 0, n |-> 1],
                  ok |-> FALSE]

\* validateBlob on a decoded bitmap: the resolution check, then the score of
\* the canvas laplacianVariance draws
validateBitmap ==
  /\ gate.pc = "bmp"
  /\ \E cw \in lapEdge(gate.w, Longer(gate.w, gate.h)),
        ch \in lapEdge(gate.h, Longer(gate.w, gate.h)) :
       LET sc == laplacianVariance(gate.bmp, cw, ch)
       IN gate' = [gate EXCEPT !.pc = "scored", !.cw = cw, !.ch = ch, !.score = sc,
                     !.ok = validateBlob([w |-> gate.w, h |-> gate.h], wholeScore(sc))]
  /\ UNCHANGED <<docs, images, logs, formVars, subs, camVars, saves, view,
                 nextBlob, faults, forced, hist, nrm, listVars, syncVars,
                 sideVars>>

SpecBlur == InitBlur /\ [][validateBitmap]_vars

(* ---------------- SpecCam: a capture session --------------------------- *)
\* the images the camera is given: the size of the video frame or of the
\* decoded file, and the score laplacianVariance gives its re-encoded form
ShotInputs ==
  {[w |-> 2000, h |-> 1500, score |-> MinScore],
   [w |-> 4000, h |-> 3000, score |-> MinScore],
   [w |-> 4000, h |-> 3000, score |-> MinScore - 1],
   [w |-> 1000, h |-> 800,  score |-> MinScore]}

\* { blob, w, h, sha256 } of take and onFilePicked, kept under the number of
\* the blob: px is the pixel size of the blob, sha256 the blob the digest was
\* computed from, ok the result of validateBlob, doc the document the dialog
\* was open for at the click
captured(in, px, b) ==
  [px |-> px, w |-> in.w, h |-> in.h, sha256 |-> b,
   ok |-> validateBlob(px, in.score), doc |-> camInbound, from |-> 0]

\* the record of rotateLast with the digest of the blob before the rotation
rotatedStaleHash(last, src, b) ==
  [px |-> [w |-> last.px.h, h |-> last.px.w], w |-> last.h, h |-> last.w,
   sha256 |-> last.sha256, ok |-> last.ok, doc |-> last.doc, from |-> src]

\* rotateLast: { blob: rotBlob, w: last.h, h: last.w, sha256: sha }; rotateBlob
\* draws on a canvas of Math.round(|w cos 90| + |h sin 90|) = h by w pixels
rotated(last, src, b) ==
  [px |-> [w |-> last.px.h, h |-> last.px.w], w |-> last.h, h |-> last.w,
   sha256 |-> b, ok |-> last.ok, doc |-> last.doc, from |-> src]

\* a message shown while the camera dialog is open lies on top of it
CameraInert == ~dlgOpen \/ dlgMsg

\* btnTake with a stream (file = FALSE) or the change event of fileInput
\* (file = TRUE), up to the wait for canvas.toBlob
takeStart(in, file) ==
  /\ ~CameraInert
  /\ IF ~file /\ Longer(in.w, in.h) < MinEdge
     THEN /\ dlgMsg' = TRUE
          /\ UNCHANGED <<shots, meta, nextBlob>>
     ELSE /\ nextBlob <= MaxBlobs
          /\ Len(shots) < MaxShots
          /\ \E pw \in scaled(in.w, Longer(in.w, in.h)),
                ph \in scaled(in.h, Longer(in.w, in.h)) :
               meta' = Append(meta, captured(in, [w |-> pw, h |-> ph], nextBlob))
          /\ shots' = Append(shots, [kind |-> "take", blob |-> nextBlob])
          /\ nextBlob' = nextBlob + 1
          /\ UNCHANGED dlgMsg
  /\ UNCHANGED <<docs, images, logs, formVars, subs, camVars, saves, view,
                 faults, forced, hist, pureVars, clicks, dlgConfirm, answered,
                 syncVars, shopVars>>

\* take / onFilePicked after validateBlob and U.sha256: the capture is pushed
\* or the message is shown
takeEnd(i) ==
  /\ shots[i].kind = "take"
  /\ shots' = RemoveAt(shots, i)
  /\ IF meta[shots[i].blob].ok
     THEN /\ captures' = Append(captures, [blob |-> shots[i].blob])
          /\ UNCHANGED dlgMsg
     ELSE /\ dlgMsg' = TRUE
          /\ UNCHANGED captures
  /\ UNCHANGED <<docs, images, logs, formVars, subs, camInbound, dlgOpen, saves,
                 view, nextBlob, faults, forced, hist, pureVars, clicks,
                 dlgConfirm, answered, syncVars, meta, shopVars>>

\* btnRotate, up to the wait in rotateBlob
rotateLast ==
  /\ ~CameraInert
  /\ captures # << >>
  /\ nextBlob <= MaxBlobs
  /\ Len(shots) < MaxShots
  /\ LET last == captures[Len(captures)]
     IN meta' = Append(meta, rotated(meta[last.blob], last.blob, nextBlob))
  /\ shots' = Append(shots, [kind |-> "rotate", blob |-> nextBlob])
  /\ nextBlob' = nextBlob + 1
  /\ UNCHANGED <<docs, images, logs, formVars, subs, camVars, saves, view,
                 faults, forced, hist, pureVars, listVars, syncVars, shopVars>>

\* rotateLast after U.sha256: state.captures[state.captures.length - 1] = ...
\* (with no capture left this sets the property -1 of the array)
rotateEnd(i) ==
  /\ shots[i].kind = "rotate"
  /\ shots' = RemoveAt(shots, i)
  /\ captures' = IF captures = << >> THEN captures
                 ELSE [captures EXCEPT ![Len(captures)] = [blob |-> shots[i].blob]]
  /\ UNCHANGED <<docs, images, logs, formVars, subs, camInbound, dlgOpen, saves,
                 view, nextBlob, faults, forced, hist, pureVars, listVars,
                 syncVars, meta, shopVars>>

\* btnRetake / btnDeleteLast: state.captures.pop()
deleteLast ==
  /\ ~CameraInert
  /\ captures # << >>
  /\ captures' = SubSeq(captures, 1, Len(captures) - 1)
  /\ UNCHANGED <<docs, images, logs, formVars, subs, camInbound, dlgOpen, saves,
                 view, nextBlob, faults, forced, hist, pureVars, listVars,
                 syncVars, shotVars, shopVars>>

\* Esc in the camera dialog: the dialog closes, the handlers are not told
dlgCancel ==
  /\ ~CameraInert
  /\ dlgOpen' = FALSE
  /\ UNCHANGED <<docs, images, logs, formVars, subs, camInbound, captures, saves,
                 view, nextBlob, faults, forced, hist, pureVars, listVars,
                 syncVars, shotVars, shopVars>>

\* the message over the camera dialog is closed
closeMsgOnTop ==
  /\ dlgMsg /\ dlgOpen
  /\ dlgMsg' = FALSE
  /\ UNCHANGED <<docs, images, logs, formVars, subs, camVars, saves, view,
                 nextBlob, faults, forced, hist, pureVars, clicks, dlgConfirm,
                 answered, syncVars, shotVars, shopVars>>

\* btnDone
btnDone == ~CameraInert /\ saveAll

CamUserStep ==
  \/ \E d \in PageDates : handleSubmit(PageLs, PageSup, d, TRUE)
  \/ \E in \in ShotInputs, file \in BOOLEAN : takeStart(in, file)
  \/ rotateLast
  \/ deleteLast
  \/ dlgCancel
  \/ closeMsg
  \/ closeMsgOnTop
  \/ btnDone

CamHandlerStep ==
  \/ \E i \in 1..Len(subs) : handleSubmitStore(i)
  \/ \E i \in 1..Len(subs) : handleSubmitEnd(i)
  \/ \E i \in 1..Len(shots) : takeEnd(i)
  \/ \E i \in 1..Len(shots) : rotateEnd(i)
  \/ \E i \in 1..Len(saves) : saveAllStore(i)
  \/ \E i \in 1..Len(saves) : saveAllEnd(i)

NextCam == CamUserStep \/ CamHandlerStep

\* capture sessions, any interleaving of clicks and handlers in flight
SpecCam == Init /\ [][NextCam]_vars

(* ---------------- SpecCart: Cart.add and the exports ------------------- *)
\* objectStore("cart").getAll(): the records in the order of their keys
getCartAll(store) ==
  LET ids == SortIds({l.id : l \in store})
  IN [k \in 1..Len(ids) |-> CHOOSE l \in store : l.id = ids[k]]

\* objectStore("cart").put(item): an upsert on keyPath id
putCart(store, item) == {l \in store : l.id # item.id} \cup {item}

\* items.find(i => i.name === name && (i.note || "") === (note || "")): the
\* index of the first match, 0 if there is none
findSame(items, name, note) ==
  LET hits == {k \in 1..Len(items) : items[k].name = name /\ items[k].note = note}
  IN IF hits = {} THEN 0 ELSE CHOOSE k \in hits : \A j \in hits : k <= j

\* same.qty += qty
merged(same, qty) == [same EXCEPT !.qty = @ + qty]

\* the number of clicks on btnToCart so far
Clicks == LET RECURSIVE sum(_)
              sum(S) == IF S = {} THEN 0
                        ELSE LET k == CHOOSE x \in S : TRUE
                             IN added[k] + sum(S \ {k})
          IN sum(CartKeys)

\* btnToCart of showDetail: Cart.add(name, 1, note) up to the wait in
\* DB.getCartAll; the read sees the store as it is when it is issued
btnToCart(key) ==
  /\ ~PageInert
  /\ Len(adds) < MaxAdds
  /\ Clicks < MaxQty
  /\ adds' = Append(adds, [pc |-> "read", name |-> key.name, note |-> key.note,
                           qty |-> 1, items |-> getCartAll(cart)])
  /\ added' = [added EXCEPT ![key] = @ + 1]
  /\ UNCHANGED <<docs, images, logs, formVars, subs, camVars, saves, view,
                 nextBlob, faults, forced, hist, pureVars, listVars, syncVars,
                 shotVars, cart, order, exported,
                 boardVars, adminVars,
                 swVars>>

\* Cart.add from the result of getCartAll to the wait in Cart.render; U.uuid()
\* gives a new line any id no line has
cartAddPut(i) ==
  LET a == adds[i]
      k == findSame(a.items, a.name, a.note)
  IN /\ IsOldest(adds, i, "read")
     /\ IF k # 0
        THEN /\ cart' = putCart(cart, merged(a.items[k], a.qty))
             /\ UNCHANGED order
        ELSE \E id \in (1..MaxLines) \ {l.id : l \in cart} :
               /\ cart' = putCart(cart, [id |-> id, name |-> a.name, qty |-> a.qty,
                                         note |-> a.note])
               /\ order' = Append(order, id)
     /\ adds' = [adds EXCEPT ![i].pc = "render"]
     /\ UNCHANGED <<docs, images, logs, formVars, subs, camVars, saves, view,
                    nextBlob, faults, forced, hist, pureVars, listVars, syncVars,
                    shotVars, added, exported,
                 boardVars, adminVars,
                 swVars>>

\* the click handler after Cart.add: Cart.render(), message("Zum Korb
\* hinzugefuegt.")
cartAddEnd(i) ==
  /\ adds[i].pc = "render"
  /\ adds' = RemoveAt(adds, i)
  /\ dlgMsg' = TRUE
  /\ UNCHANGED <<docs, images, logs, formVars, subs, camVars, saves, view,
                 nextBlob, faults, forced, hist, pureVars, clicks, dlgConfirm,
                 answered, syncVars, shotVars, cart, order, added, exported,
                 boardVars, adminVars,
                 swVars>>

\* the rows an export writes: items.map(i => [i.qty, i.name, i.note || ""])
exportRows(items) ==
  [k \in 1..Len(items) |->
     [id |-> items[k].id, qty |-> items[k].qty, name |-> items[k].name,
      note |-> items[k].note]]

\* btnExportCSV (kind "csv") and btnExportPDF (kind "pdf"): the lines of
\* getCartAll in its order, as a file or as a table in a new window
export(kind) ==
  /\ ~PageInert
  /\ exported' = [kind |-> kind, rows |-> exportRows(getCartAll(cart))]
  /\ UNCHANGED <<docs, images, logs, formVars, subs, camVars, saves, view,
                 nextBlob, faults, forced, hist, pureVars, listVars, syncVars,
                 shotVars, cart, adds, order, added,
                 boardVars, adminVars,
                 swVars>>

exportCSV == export("csv")
exportPDF == export("pdf")

NextCart ==
  \/ \E key \in CartKeys : btnToCart(key)
  \/ \E i \in 1..Len(adds) : cartAddPut(i)
  \/ \E i \in 1..Len(adds) : cartAddEnd(i)
  \/ closeMsg
  \/ exportCSV
  \/ exportPDF

SpecCart == Init /\ [][NextCart]_vars

(* ---------------- quantities typed by the user ----------------------- *)
Digits == <<"0", "1", "2", "3", "4", "5", "6", "7", "8", "9">>

IsDigit(c) == \E d \in 1..10 : Digits[d] = c

DigitVal(c) == (CHOOSE d \in 1..10 : Digits[d] = c) - 1

\* the white space parseInt skips at the start of its argument
RECURSIVE skipWhite(_)
skipWhite(s) ==
  IF s # << >> /\ IsSpace(Head(s)) THEN skipWhite(Tail(s)) ELSE s

\* the digits a text starts with
RECURSIVE leadDigits(_)
leadDigits(s) ==
  IF s # << >> /\ IsDigit(Head(s)) THEN <<Head(s)>> \o leadDigits(Tail(s))
  ELSE << >>

\* the number a sequence of digits writes in base ten
RECURSIVE decimal(_)
decimal(ds) ==
  IF ds = << >> THEN 0
  ELSE 10 * decimal(SubSeq(ds, 1, Len(ds) - 1)) + DigitVal(ds[Len(ds)])

\* parseInt(text, 10): white space is skipped, one sign is read, then the
\* digits up to the first other character; no digit gives NaN
parseInt(text) ==
  LET s    == skipWhite(text)
      neg  == s # << >> /\ Head(s) = "-"
      body == IF s # << >> /\ Head(s) \in {"-", "+"} THEN Tail(s) ELSE s
      ds   == leadDigits(body)
  IN IF ds = << >> THEN [nan |-> TRUE, v |-> 0]
     ELSE [nan |-> FALSE, v |-> IF neg THEN 0 - decimal(ds) ELSE decimal(ds)]

\* x || 0: NaN and 0 are falsy
orZero(x) == IF x.nan \/ x.v = 0 THEN 0 ELSE x.v

\* parseInt(val || "0", 10) || 0
typedNumber(val) == orZero(parseInt(IF val = << >> THEN <<"0">> ELSE val))

\* the quantity of an edited cell without the lower limit
qtyOfSigned(val) == typedNumber(val)

\* Math.max(0, parseInt(val || "0", 10) || 0)
qtyOf(val) == IF typedNumber(val) < 0 THEN 0 ELSE typedNumber(val)

\* what the user leaves in a quantity cell or types as a quantity
QtyTexts == { << >>, <<"-", "5">>, <<"a">>, <<"1", "2">>,
              <<" ", "1", "2", " ">>, <<"1", "2", ".", "7">>,
              <<"+", "1", "2">>, <<"-">>, <<"0", "0">> }

(* ---------------- the cart table -------------------------------------- *)
\* the reads of the cart issued before handler i has its result
ReadsAhead(i) == {j \in 1..(i - 1) : adds[j].pc \in {"read", "input"}}

\* Cart.onTableInput on the quantity cell of line id, up to the wait in
\* DB.getCartAll
onTableInput(id) ==
  /\ ~PageInert
  /\ Len(adds) < MaxAdds
  /\ \E l \in cart : l.id = id
  /\ adds' = Append(adds, [pc |-> "input", id |-> id, items |-> getCartAll(cart)])
  /\ UNCHANGED <<docs, images, logs, formVars, subs, camVars, saves, view,
                 nextBlob, faults, forced, hist, pureVars, listVars, syncVars,
                 shotVars, cart, order, added, exported, boardVars, adminVars,
                 swVars>>

\* Cart.onTableInput from the result of getCartAll to its end: the line is
\* looked up in the result, the text is the cell's at that moment, and the
\* line read is put back with the new quantity
onTableInputPut(i, text) ==
  LET a    == adds[i]
      hits == {k \in 1..Len(a.items) : a.items[k].id = a.id}
      val  == trim(text)
  IN /\ adds[i].pc = "input" /\ ReadsAhead(i) = {}
     /\ adds' = RemoveAt(adds, i)
     /\ IF hits = {} THEN UNCHANGED <<cart, order>>
        ELSE LET it == a.items[CHOOSE k \in hits : TRUE]
             IN /\ cart' = putCart(cart, [it EXCEPT !.qty = qtyOf(val)])
                /\ order' = IF \E l \in cart : l.id = it.id THEN order
                            ELSE Append(order, it.id)
     /\ UNCHANGED <<docs, images, logs, formVars, subs, camVars, saves, view,
                    nextBlob, faults, forced, hist, pureVars, listVars, syncVars,
                    shotVars, added, exported, boardVars, adminVars,
                 swVars>>

(* ---------------- the board ------------------------------------------- *)
Zones == {"Bestände", "Wareneingang", "Lagerplatz", "Pulverbeschichtung",
          "Roboter"}

Untergestell == <<"5", "7", "-", "9", "0", "-", "1", "2", " ", "U", "n", "t",
                  "e", "r", "g", "e", "s", "t", "e", "l", "l">>
Rueckenteil  == <<"6", "1", "-", "9", "1", "-", "1", "1", "2", " ", "R", "ü",
                  "c", "k", "e", "n", "t", "e", "i", "l">>
PlatzCode    == <<"P", "-", "R", "2", " ", "1", "-", "1">>
Platz        == <<"P", "l", "a", "t", "z">>

\* what the user types into the prompt dialog for a code, a name or a note
CodeTexts == { << >>, <<" ">>, PlatzCode, <<" ">> \o PlatzCode }

\* UI.prompt(label, defVal): showModal() returns nothing and the input is read
\* in the same turn, before the user can type, so the result is undefined and
\* the value is the default
prompt(defVal, typed) == [result |-> "undefined", value |-> defVal]

\* a value read from an object: [v |-> x], or Undefined
Undefined == [undef |-> TRUE]

IsUndefined(x) == "undef" \in DOMAIN x

\* obj.f of a record or of a request object
fieldOf(obj, f) == IF f \in DOMAIN obj THEN [v |-> obj[f]] ELSE Undefined

\* the decimal digits of a natural number
RECURSIVE digitsOf(_)
digitsOf(n) ==
  IF n < 10 THEN <<Digits[n + 1]>>
  ELSE digitsOf(n \div 10) \o <<Digits[(n % 10) + 1]>>

\* String(x) of a quantity
String(x) ==
  IF IsUndefined(x) THEN <<"u", "n", "d", "e", "f", "i", "n", "e", "d">>
  ELSE digitsOf(x.v)

\* x || "" of a text, also what a parameter with the default "" is given
textOr(x) == IF IsUndefined(x) THEN << >> ELSE x.v

\* obj.f = v
setField(obj, f, v) ==
  [x \in DOMAIN obj \cup {f} |-> IF x = f THEN v ELSE obj[x]]

\* a <= k of a value read and a number: false when a is undefined
notAbove(a, k) == ~IsUndefined(a) /\ a.v <= k

\* a < b of two values read: false when one is undefined
lessThan(a, b) == ~IsUndefined(a) /\ ~IsUndefined(b) /\ a.v < b.v

\* DB.getItem returns what objectStore.get(id) returns, the request, as
\* DB.getInboundById does
getItem(store, id) == [request |-> id]

\* DB.putItem: an upsert on keyPath id; a request object cannot be cloned
\* (DataCloneError) and the store is left as it is
putItem(store, it) ==
  IF "request" \in DOMAIN it THEN store
  ELSE {x \in store : x.id # it.id} \cup {it}

\* DB.deleteItem: delete(undefined) is not a valid key (DataError)
deleteItem(store, id) ==
  IF IsUndefined(id) THEN store ELSE {x \in store : x.id # id.v}

\* DB.listItemsByZone
listItemsByZone(store, zone) == {x \in store : x.zone = zone}

\* U.uuid() for a new item: any id no item has
NewItemIds(store) == (1..MaxItems) \ {x.id : x \in store}

\* addOrMergeItem: the quantity is added to the item of the zone with that
\* name and note, or a new item is stored
addOrMergeItem(store, name, zone, qty, note, id) ==
  LET same == {x \in listItemsByZone(store, zone) :
                 x.name = name /\ x.note = note}
  IN IF same # {}
     THEN LET x == CHOOSE y \in same : \A z \in same : y.id <= z.id
          IN putItem(store, [x EXCEPT !.qty = @ + qty])
     ELSE putItem(store, [id |-> id, name |-> name, zone |-> zone,
                          qty |-> qty, note |-> note])

\* the tail of App.boot: the three sample items are stored when the zones
\* Wareneingang, Bestände and Lagerplatz hold nothing
seeded(store) ==
  IF listItemsByZone(store, "Wareneingang") = {}
       /\ listItemsByZone(store, "Bestände") = {}
       /\ listItemsByZone(store, "Lagerplatz") = {}
  THEN LET a == CHOOSE x \in NewItemIds(store) : TRUE
           s1 == putItem(store, [id |-> a, name |-> Untergestell,
                                 zone |-> "Wareneingang", qty |-> 20,
                                 note |-> << >>])
           b == CHOOSE x \in NewItemIds(s1) : TRUE
           s2 == putItem(s1, [id |-> b, name |-> Rueckenteil,
                              zone |-> "Bestände", qty |-> 50, note |-> << >>])
           c == CHOOSE x \in NewItemIds(s2) : TRUE
       IN putItem(s2, [id |-> c, name |-> PlatzCode, zone |-> "Lagerplatz",
                       qty |-> 0, note |-> Platz])
  ELSE store

\* Admin.loadToggles: !!(await DB.getSetting(key, false))
getSetting(store, key) ==
  IF \E r \in store : r.key = key
  THEN (CHOOSE r \in store : r.key = key).value ELSE FALSE

\* App.boot: the toggles are loaded, the board is seeded
boot ==
  /\ ~booted
  /\ booted' = TRUE
  /\ toggles' = [home_lock |-> getSetting(settings, "home_lock"),
                 override  |-> getSetting(settings, "override")]
  /\ dnd_items' = seeded(dnd_items)
  /\ UNCHANGED <<docs, images, logs, formVars, subs, camVars, saves, view,
                 nextBlob, faults, forced, hist, pureVars, listVars, syncVars,
                 shotVars, cartVars, dlgPrompt, lastOp,
                 admin, pinHash, settings, lastLogin, flips,
                 swVars>>

\* the page is loaded again: the stores and localStorage stay, the script's
\* state and the dialogs start over
reload ==
  /\ booted /\ adds = << >>
  /\ booted' = FALSE /\ admin' = FALSE
  /\ dlgPrompt' = FALSE /\ dlgMsg' = FALSE
  /\ UNCHANGED <<docs, images, logs, formVars, subs, camVars, saves, view,
                 nextBlob, faults, forced, hist, pureVars, clicks, dlgConfirm,
                 answered, syncVars, shotVars, cartVars, dnd_items, lastOp,
                 pinHash, settings, toggles, lastLogin, flips,
                 swVars>>

\* what the drop handler stores after the amount is settled
dropStore(store, item, targetZone, qty, id) ==
  IF lessThan(qty, fieldOf(item, "qty"))
  THEN LET less == [item EXCEPT !.qty = @ - qty.v]
       IN addOrMergeItem(putItem(store, less), item.name, targetZone, qty.v,
                         item.note, id)
  ELSE putItem(store, setField(item, "zone", targetZone))

\* the drop handler of a zone for the dragged item id; asks is
\* ask && (ev.altKey || zone.dataset.askPartial === "1")
drop(id, targetZone, asks, typed) ==
  LET item == getItem(dnd_items, id)
      v    == prompt(String(fieldOf(item, "qty")), typed)
      \* Math.max(0, Math.min(item.qty, parseInt(v.value || "0", 10) || 0)):
      \* NaN, here Undefined, when item.qty is undefined
      n    == IF lessThan([v |-> qtyOf(v.value)], fieldOf(item, "qty"))
              THEN [v |-> qtyOf(v.value)] ELSE fieldOf(item, "qty")
  IN /\ booted /\ ~PageInert
     /\ lastOp.n < MaxTries
     /\ \E x \in dnd_items : x.id = id
     /\ lastOp' = [n |-> lastOp.n + 1, op |-> "drop", id |-> id,
                   zone |-> targetZone, asked |-> asks]
     /\ dlgPrompt' = asks
     /\ IF asks /\ (v.result # "ok" \/ notAbove(n, 0))
        THEN UNCHANGED dnd_items
        ELSE LET qty == IF asks THEN n ELSE fieldOf(item, "qty")
             IN IF lessThan(qty, fieldOf(item, "qty"))
                THEN \E new \in NewItemIds(dnd_items) :
                       dnd_items' = dropStore(dnd_items, item, targetZone, qty, new)
                ELSE dnd_items' = dropStore(dnd_items, item, targetZone, qty, 0)
     /\ UNCHANGED <<docs, images, logs, formVars, subs, camVars, saves, view,
                    nextBlob, faults, forced, hist, pureVars, listVars,
                    syncVars, shotVars, cartVars, booted, adminVars,
                 swVars>>

\* the click handler of the board on the button act of item id; the edit asks
\* for name, quantity and note one after the other
boardClick(id, act, name, qtyText, note) ==
  LET item == getItem(dnd_items, id)
      p1   == prompt(textOr(fieldOf(item, "name")), name)
      p2   == prompt(String(fieldOf(item, "qty")), qtyText)
      p3   == prompt(textOr(fieldOf(item, "note")), note)
  IN /\ booted /\ ~PageInert
     /\ lastOp.n < MaxTries
     /\ \E x \in dnd_items : x.id = id
     /\ lastOp' = [n |-> lastOp.n + 1, op |-> act, id |-> id, zone |-> "",
                   asked |-> act = "edit"]
     /\ dlgPrompt' = (act = "edit")
     /\ dnd_items' =
          IF act = "del" THEN deleteItem(dnd_items, fieldOf(item, "id"))
          ELSE IF p1.result # "ok" \/ p2.result # "ok" \/ p3.result # "ok"
               THEN dnd_items
               ELSE putItem(dnd_items,
                      setField(setField(setField(item,
                        "name", sanitize(p1.value)),
                        "qty", qtyOf(p2.value)),
                        "note", sanitize(p3.value)))
     /\ UNCHANGED <<docs, images, logs, formVars, subs, camVars, saves, view,
                    nextBlob, faults, forced, hist, pureVars, listVars,
                    syncVars, shotVars, cartVars, booted, adminVars,
                 swVars>>

\* UI.addBin
addBin(typed) ==
  LET v == prompt(<< >>, typed)
  IN /\ booted /\ ~PageInert
     /\ lastOp.n < MaxTries
     /\ lastOp' = [n |-> lastOp.n + 1, op |-> "addBin", id |-> 0,
                   zone |-> "Lagerplatz", asked |-> TRUE]
     /\ dlgPrompt' = TRUE
     /\ IF v.result # "ok" \/ trim(v.value) = << >> THEN UNCHANGED dnd_items
        ELSE \E new \in NewItemIds(dnd_items) :
               dnd_items' = putItem(dnd_items,
                              [id |-> new, name |-> trim(v.value),
                               zone |-> "Lagerplatz", qty |-> 0, note |-> Platz])
     /\ UNCHANGED <<docs, images, logs, formVars, subs, camVars, saves, view,
                    nextBlob, faults, forced, hist, pureVars, listVars,
                    syncVars, shotVars, cartVars, booted, adminVars,
                 swVars>>

\* the user closes the prompt dialog
closePrompt ==
  /\ dlgPrompt
  /\ dlgPrompt' = FALSE
  /\ UNCHANGED <<docs, images, logs, formVars, subs, camVars, saves, view,
                 nextBlob, faults, forced, hist, pureVars, listVars, syncVars,
                 shotVars, cartVars, dnd_items, booted, lastOp, adminVars,
                 swVars>>

(* ---------------- the admin role --------------------------------------- *)
\* what the user types as a PIN
PinTexts == { << >>, <<"1">>, <<"2">>, <<" ">> }

\* U.sha256 of the encoded text: the digest of a text, different for
\* different texts and never the text
sha256(text) == <<"sha256", text>>

\* objectStore("settings").put({ key, value })
setSetting(store, key, value) ==
  {r \in store : r.key # key} \cup {[key |-> key, value |-> value]}

\* the change handler of a toggle without the test of the role
changeToggleUnguarded(adm, tg, store, key) ==
  [toggles |-> [tg EXCEPT ![key] = ~@],
   settings |-> setSetting(store, key, ~tg[key])]

\* the change handler of toggleHomeLock (key home_lock) and toggleOverride
\* (key override); the browser has flipped the box before the handler runs
changeToggle(adm, tg, store, key) ==
  IF ~adm THEN [toggles |-> tg, settings |-> store]
  ELSE [toggles |-> [tg EXCEPT ![key] = ~@],
        settings |-> setSetting(store, key, ~tg[key])]

toggleChange(key) ==
  LET r == changeToggle(admin, toggles, settings, key)
  IN /\ booted /\ ~PageInert
     /\ flips < MaxTries
     /\ flips' = flips + 1
     /\ toggles' = r.toggles
     /\ settings' = r.settings
     /\ UNCHANGED <<docs, images, logs, formVars, subs, camVars, saves, view,
                    nextBlob, faults, forced, hist, pureVars, listVars,
                    syncVars, shotVars, cartVars, boardVars,
                    admin, pinHash, lastLogin,
                 swVars>>

\* btnSetPin: the PIN is asked for twice and its digest is stored
btnSetPin(typed1, typed2) ==
  LET p1 == prompt(<< >>, typed1)
      p2 == prompt(<< >>, typed2)
  IN /\ booted /\ ~PageInert
     /\ dlgPrompt' = TRUE
     /\ IF p1.result # "ok" \/ trim(p1.value) = << >> \/ p2.result # "ok"
        THEN UNCHANGED <<pinHash, dlgMsg>>
        ELSE /\ dlgMsg' = TRUE
             /\ pinHash' = IF p1.value # p2.value THEN pinHash
                           ELSE sha256(p1.value)
     /\ UNCHANGED <<docs, images, logs, formVars, subs, camVars, saves, view,
                    nextBlob, faults, forced, hist, pureVars, clicks,
                    dlgConfirm, answered, syncVars, shotVars, cartVars,
                    dnd_items, booted, lastOp,
                    admin, settings, toggles, lastLogin, flips,
                 swVars>>

\* btnLogin: the digest of the PIN asked for is compared with the stored one
btnLogin(typed) ==
  LET pin    == prompt(<< >>, typed)
      hash   == sha256(pin.value)
      stored == pinHash
  IN /\ booted /\ ~PageInert
     /\ lastLogin.n < MaxTries
     /\ lastLogin' = [n |-> lastLogin.n + 1, pin |-> pin.value]
     /\ dlgPrompt' = TRUE
     /\ IF pin.result # "ok" THEN UNCHANGED <<admin, dlgMsg>>
        ELSE /\ dlgMsg' = TRUE
             /\ admin' = IF stored # << >> /\ stored = hash THEN TRUE ELSE admin
     /\ UNCHANGED <<docs, images, logs, formVars, subs, camVars, saves, view,
                    nextBlob, faults, forced, hist, pureVars, clicks,
                    dlgConfirm, answered, syncVars, shotVars, cartVars,
                    dnd_items, booted, lastOp,
                    pinHash, settings, toggles, flips,
                 swVars>>

(* ---------------- the board with the admin role, and with the cart -- *)
\* the zones an item is dropped on: its own, another with an item, an empty one
DropZones == Zones \ {"Bestände", "Pulverbeschichtung"}

\* what the user types as the amount to move
DropTexts == { <<"1", "2">>, <<"-", "5">> }

\* the user's steps on the board
BoardStep ==
  \/ \E x \in dnd_items, z \in DropZones :
       \/ drop(x.id, z, FALSE, << >>)
       \/ \E typed \in DropTexts : drop(x.id, z, TRUE, typed)
  \/ \E x \in dnd_items :
       \/ boardClick(x.id, "del", << >>, << >>, << >>)
       \/ \E q \in DropTexts : boardClick(x.id, "edit", PlatzCode, q, << >>)
  \/ \E typed \in CodeTexts : addBin(typed)
  \/ closePrompt

NextBoard ==
  \/ boot
  \/ reload
  \/ BoardStep
  \/ \E key \in {"home_lock", "override"} : toggleChange(key)
  \/ \E t1 \in PinTexts, t2 \in PinTexts : btnSetPin(t1, t2)
  \/ \E typed \in PinTexts : btnLogin(typed)

SpecBoard == Init /\ [][NextBoard]_vars

\* the line the detail view shown adds to the cart
ShopKey == [name |-> "a", note |-> "d1"]

\* the board next to the cart table; a quantity cell is edited while no
\* handler of the cart is in flight
NextShop ==
  \/ boot
  \/ BoardStep
  \/ btnToCart(ShopKey)
  \/ \E i \in 1..Len(adds) : cartAddPut(i)
  \/ \E i \in 1..Len(adds) : cartAddEnd(i)
  \/ closeMsg
  \/ \E id \in 1..MaxLines : adds = << >> /\ onTableInput(id)
  \/ \E i \in 1..Len(adds), text \in QtyTexts : onTableInputPut(i, text)

SpecShop == Init /\ [][NextShop]_vars

(* ---------------- sw.js: the service worker --------------------------- *)
\* the cache names an older version of the worker or the page may have left
OldCaches == {"lager-v3", "other"}

\* the responses the network gives: v tells one response from the next
Responses ==
  { [status |-> 200, vary |-> "", v |-> 1], [status |-> 200, vary |-> "", v |-> 2],
    [status |-> 200, vary |-> "*", v |-> 1], [status |-> 206, vary |-> "", v |-> 1],
    [status |-> 404, vary |-> "", v |-> 1] }

\* Response.ok
Successful(r) == r.status >= 200 /\ r.status <= 299

\* a cache that takes every response
putAll(store, url, r) == [store EXCEPT ![url] = r]

\* cache.put(request, response): the promise is rejected for a partial
\* response (status 206) and for one that varies on "*", and the cache is
\* left as it is; the rejection is not handled
put(store, url, r) ==
  IF r.status = 206 \/ r.vary = "*" THEN store
  ELSE [store EXCEPT ![url] = r]

\* cache.match(request): the response held, undefined (NoResponse) if none
match(store, url) == store[url]

\* the install listener: caches.open(CACHE) creates the cache, c.addAll(ASSETS)
\* stores every asset or, if one cannot be fetched, none and the install
\* fails; skipWaiting() lets the worker go on to activation
install(ok) ==
  /\ swState = "parsed"
  /\ cacheNames' = cacheNames \cup {CACHE}
  /\ cache' = IF ok THEN put(cache, "/index.html", [status |-> 200, vary |-> "", v |-> 1])
              ELSE cache
  /\ swState' = IF ok THEN "installed" ELSE "redundant"
  /\ UNCHANGED <<docs, images, logs, formVars, subs, camVars, saves, view,
                 nextBlob, faults, forced, hist, pureVars, listVars, syncVars,
                 shotVars, cartVars, boardVars, adminVars, reqs, lastAnswer>>

\* the activate listener: every key of caches.keys() other than CACHE is
\* deleted
activate ==
  /\ swState = "installed"
  /\ cacheNames' = {k \in cacheNames : ~(k # CACHE)}
  /\ swState' = "activated"
  /\ UNCHANGED <<docs, images, logs, formVars, subs, camVars, saves, view,
                 nextBlob, faults, forced, hist, pureVars, listVars, syncVars,
                 shotVars, cartVars, boardVars, adminVars, cache, reqs,
                 lastAnswer>>

\* the fetch listener up to the wait for the network: a request that is not
\* a GET is left to the browser; for a GET the cache is asked, the request
\* goes to the network, and a cached response is the answer
fetchEvent(method, url) ==
  LET cached == match(cache, url)
  IN /\ swState = "activated"
     /\ Len(reqs) < MaxReqs
     /\ lastAnswer.n < MaxFetches
     /\ IF method # "GET"
        THEN /\ lastAnswer' = [n |-> lastAnswer.n + 1, method |-> method,
                               url |-> url, by |-> "browser", resp |-> NoResponse,
                               neturl |-> lastAnswer.neturl,
                               net |-> lastAnswer.net, had |-> lastAnswer.had]
             /\ UNCHANGED reqs
        ELSE /\ reqs' = Append(reqs, [url |-> url, cached |-> cached])
             /\ lastAnswer' =
                  IF cached # NoResponse
                  THEN [n |-> lastAnswer.n + 1, method |-> method, url |-> url,
                        by |-> "cache", resp |-> cached,
                        neturl |-> lastAnswer.neturl, net |-> lastAnswer.net,
                        had |-> lastAnswer.had]
                  ELSE [lastAnswer EXCEPT !.n = @ + 1]
     /\ UNCHANGED <<docs, images, logs, formVars, subs, camVars, saves, view,
                    nextBlob, faults, forced, hist, pureVars, listVars,
                    syncVars, shotVars, cartVars, boardVars, adminVars,
                    cacheNames, cache, swState>>

\* fetch(e.request) resolves with r: cache.put(e.request, r.clone()), and r
\* is the answer where the cache held nothing
fetched(i, r) ==
  LET q == reqs[i]
  IN /\ i \in 1..Len(reqs)
     /\ cache' = put(cache, q.url, r)
     /\ reqs' = RemoveAt(reqs, i)
     /\ lastAnswer' =
          IF q.cached # NoResponse
          THEN [lastAnswer EXCEPT !.neturl = q.url, !.net = r, !.had = q.cached]
          ELSE [lastAnswer EXCEPT !.method = "GET", !.url = q.url,
                                  !.by = "network", !.resp = r,
                                  !.neturl = q.url, !.net = r,
                                  !.had = q.cached]
     /\ UNCHANGED <<docs, images, logs, formVars, subs, camVars, saves, view,
                    nextBlob, faults, forced, hist, pureVars, listVars,
                    syncVars, shotVars, cartVars, boardVars, adminVars,
                    cacheNames, swState>>

\* fetch(e.request) is rejected: catch(() => cached), and the answer where
\* the cache held nothing is undefined, a network error for the page
fetchFailed(i) ==
  LET q == reqs[i]
  IN /\ i \in 1..Len(reqs)
     /\ reqs' = RemoveAt(reqs, i)
     /\ lastAnswer' =
          IF q.cached # NoResponse
          THEN [lastAnswer EXCEPT !.neturl = q.url, !.net = NoResponse,
                                  !.had = q.cached]
          ELSE [lastAnswer EXCEPT !.method = "GET", !.url = q.url,
                                  !.by = "error", !.resp = NoResponse,
                                  !.neturl = q.url, !.net = NoResponse,
                                  !.had = q.cached]
     /\ UNCHANGED <<docs, images, logs, formVars, subs, camVars, saves, view,
                    nextBlob, faults, forced, hist, pureVars, listVars,
                    syncVars, shotVars, cartVars, boardVars, adminVars,
                    cacheNames, cache, swState>>

\* the worker is registered with any of the older caches present
InitSW ==
  /\ InitStore /\ faults = 0 /\ nrm = NoNorm /\ gate = NoGate
  /\ InitList /\ InitSync /\ InitShot /\ InitCart /\ InitBoard /\ InitAdmin
  /\ cacheNames \in SUBSET (OldCaches \cup {CACHE})
  /\ cache = [u \in Urls |-> NoResponse]
  /\ swState = "parsed" /\ reqs = << >> /\ lastAnswer = NoAnswer

NextSW ==
  \/ \E ok \in BOOLEAN : install(ok)
  \/ activate
  \/ \E method \in {"GET", "POST"}, url \in Urls : fetchEvent(method, url)
  \/ \E i \in 1..Len(reqs), r \in Responses : fetched(i, r)
  \/ \E i \in 1..Len(reqs) : fetchFailed(i)

SpecSW == InitSW /\ [][NextSW]_vars

Persisted(caps, store) == SelectSeq(caps, LAMBDA c : \E r \in store : r.id = c.blob)

\* C2: the pages a saveAll run persists are numbered in capture order from one
\* plus the highest page number the camera's document has in the store, and
\* are stored with synced = false.
C2_AttachNumbers ==
  [][\A i \in 1..Len(saves) :
       saveAllStore(i) =>
         LET M   == pageStart(listImages(images, camInbound))
             new == Persisted(captures, images')
         IN images' \ images =
              {[id |-> new[k].blob, inbound_id |-> camInbound,
                page_no |-> M + k, synced |-> FALSE] : k \in 1..Len(new)}]_vars

StoredPage(store, id) == (CHOOSE r \in store : r.id = id).page_no

\* the selected page and its neighbour j have exchanged their stored numbers
Swapped(j) ==
  LET a == view.imgs[view.sel].id
      b == view.imgs[j].id
  IN /\ StoredPage(images', a) = StoredPage(images, b)
     /\ StoredPage(images', b) = StoredPage(images, a)
     /\ {r \in images' : r.id \notin {a, b}} = {r \in images : r.id \notin {a, b}}
     /\ Dense(images', view.doc)
     /\ logs' = logs (+) SetToBag({[action |-> "reorder_images",
                                    inbound_id |-> view.doc, image_id |-> 0]})

C6_UniquePage ==
  \A r, q \in images :
    (r.id = q.id \/ (r.inbound_id = q.inbound_id /\ r.page_no = q.page_no)) => r = q

\* a handler's write has been rejected by the store
C6_Witness == hist.rej > 0 /\ images # {}

(* ---------------- C7: duplicate warning -------------------------------- *)
SameKey(d, ls_nr, supplier, date_doc) ==
  /\ normLs(d.ls_nr) = normLs(ls_nr)
  /\ d.supplier = supplier
  /\ d.date_doc = date_doc

\* C7: a submission that passes the required-field check, with the override
\* checkbox unticked: if the store held, when the handler was invoked, a
\* document with the same normalized number, supplier and date, nothing is
\* created and the warning is shown; otherwise the document is created with
\* status ohne_zeichnung.
C7_DuplicateWarning ==
  [][\A i \in 1..Len(subs) :
       handleSubmitStore(i) /\ ~chkForce =>
         LET s == subs[i]
         IN IF \E d \in s.docs0 : SameKey(d, s.ls_nr, s.supplier, s.date_doc)
            THEN docs' = docs /\ dupWarning'
            ELSE /\ \E d \in docs' \ docs :
                      /\ docs' = docs \cup {d}
                      /\ d.ls_nr = s.ls_nr /\ d.supplier = s.supplier
                      /\ d.date_doc = s.date_doc /\ d.status = "ohne_zeichnung"
                 /\ ~dupWarning']_vars

\* a submission without override has ended in the warning
C7_Witness ==
  /\ hist.op = "warn" /\ dupWarning /\ ~chkForce
  /\ Cardinality(docs) = 1 /\ forced = {}

(* ---------------- C8: override ----------------------------------------- *)
\* C8: with the override checkbox ticked a submission that passes the
\* required-field check stores a new document under a new id, whatever the
\* store holds, and leaves the stored documents as they were.
C8_Override ==
  [][\A i \in 1..Len(subs) :
       handleSubmitStore(i) /\ chkForce =>
         LET s == subs[i]
         IN \E d \in docs' \ docs :
              /\ docs' = docs \cup {d}
              /\ \A e \in docs : e.id # d.id
              /\ d.ls_nr = s.ls_nr /\ d.supplier = s.supplier
              /\ d.date_doc = s.date_doc]_vars

\* two documents with the same normalized number, supplier and date
C8_Witness ==
  \E d, e \in docs :
    /\ d.id # e.id /\ e.id \in forced
    /\ SameKey(d, e.ls_nr, e.supplier, e.date_doc)

(* ---------------- C9: overlapping creates ------------------------------ *)
\* C9: of the documents with the same normalized number, supplier and date
\* at most one was created without override.
C9_AtMostOne ==
  \A d, e \in docs :
    (d.id # e.id /\ SameKey(d, e.ls_nr, e.supplier, e.date_doc))
      => (d.id \in forced \/ e.id \in forced)

(* ---------------- C10: normLs ------------------------------------------ *)
\* C10: normLs is idempotent, and strings that differ only in case,
\* whitespace, '-', '_' or '.' have the same normal form.
C10_NormIdempotent ==
  /\ nrm.pc = "twice" => nrm.twice = nrm.out
  /\ nrm.pc # "in" => nrm.outVariant = nrm.out

\* a string with a separator and a lower-case letter, and a different variant
C10_Witness ==
  /\ nrm.pc = "twice"
  /\ nrm.in # nrm.out /\ nrm.variant # nrm.in /\ nrm.out # << >>
  /\ \E i \in 1..Len(nrm.in) : nrm.in[i] \in {"-", "_", ".", " "}

(* ---------------- C11: the normalized number --------------------------- *)
\* C11: every stored document's ls_nr_normalized is normLs of its ls_nr.
C11_NormalizedField == \A d \in docs : d.ls_nr_normalized = normLs(d.ls_nr)

\* a stored document whose number as typed is not its normal form, after a
\* list click on it has been handled
C11_Witness ==
  /\ \E d \in docs : d.ls_nr # d.ls_nr_normalized /\ d.ls_nr_normalized # << >>
  /\ dlgConfirm # 0

(* ---------------- C12: status lifecycle -------------------------------- *)
Statuses == {"ohne_zeichnung", "mit_zeichnung"}

\* C12: every step keeps every stored document in the store, a document that
\* enters the store has status ohne_zeichnung, every status is one of the two
\* values, and a document in mit_zeichnung stays in mit_zeichnung.
C12_Lifecycle ==
  [][/\ \A d \in docs : \E e \in docs' :
          /\ e.id = d.id
          /\ (d.status = "mit_zeichnung" => e.status = "mit_zeichnung")
     /\ \A e \in docs' :
          /\ e.status \in Statuses
          /\ (\A d \in docs : d.id # e.id) => e.status = "ohne_zeichnung"]_vars

\* a document with a page for which the confirm dialog was answered
C12_Witness ==
  \E d \in docs : d.id \in answered /\ countImages(images, d.id) > 0

(* ---------------- C13: no transition without a page -------------------- *)
StatusChanges(id) ==
  CopiesIn([action |-> "status_change", inbound_id |-> id, image_id |-> 0], logs)

\* C13: the "open" button on a document for which the handler read zero
\* pages leaves inbound_docs and logs as they are; and whenever a step sets a
\* status to mit_zeichnung, the handler that does it has read at least one
\* page of that document.
C13_NoPageNoTransition ==
  [][\A i \in 1..Len(clicks) :
       listClickGo(i) =>
         /\ clicks[i].n = 0 => (docs' = docs /\ logs' = logs)
         /\ docs' # docs => clicks[i].n > 0]_vars

\* the handler has run on a document without a page: the message is shown
\* and the camera opened, the document is as it was
C13_Witness ==
  /\ dlgMsg /\ dlgOpen
  /\ \E d \in docs : d.id = camInbound /\ d.status = "ohne_zeichnung"
                     /\ d.updated_by = "null" /\ StatusChanges(d.id) = 0

(* ---------------- C14: the transition happens once --------------------- *)
\* C14: a document for which the user has answered "yes" is, once the
\* handlers have ended, in status mit_zeichnung with exactly one
\* status_change entry; no document ever has more than one.
C14_ExactlyOnce ==
  /\ \A d \in docs : StatusChanges(d.id) <= 1
  /\ Quiescent =>
       \A d \in docs : d.id \in answered =>
         d.status = "mit_zeichnung" /\ StatusChanges(d.id) = 1

(* ---------------- C15: the badge shows the pending count --------------- *)
\* C15: when a bumpSyncBadge run ends, the number it has written to the
\* badge is the number of image records with synced = false in the store.
C15_BadgeIsPending ==
  [][\A i \in 1..Len(bumps) :
       (bumpMit(i) \/ bumpCount(i) \/ bumpEnd(i)) /\ Len(bumps') < Len(bumps)
         => badge' = Cardinality(Unsynced(images'))]_vars

NewlySynced == {r \in images' : r.synced /\ r \notin images}

\* C17: synced = true is written by the acknowledge loop only, and only
\* while the device is online; the loop is entered only by a run started
\* with auto set, while online, with a pending count above zero.
C17_SyncedOnlyOnline ==
  [][/\ NewlySynced # {} => online /\ \E i \in 1..Len(bumps) : bumpAck(i)
     /\ \A i \in 1..Len(bumps) :
          bumpCount(i) /\ Len(bumps') = Len(bumps) /\ bumps'[i].pc = "sleep300"
            => bumps[i].auto /\ online /\ badge' > 0]_vars

(* ---------------- C18: logs is append-only ----------------------------- *)
LogKinds == {e.action : e \in BagToSet(logs)}

\* C18: every step keeps every log entry as it is (logs only grows); the
\* creation of a document, every attached capture, a delete and a reorder
\* each add exactly one entry.
C18_LogsAppendOnly ==
  [][/\ \A e \in BagToSet(logs) : CopiesIn(e, logs') >= CopiesIn(e, logs)
     /\ \A i \in 1..Len(subs) :
          handleSubmitStore(i) /\ docs' # docs
            => BagCardinality(logs') = BagCardinality(logs) + 1
     /\ \A i \in 1..Len(saves) :
          saveAllStore(i)
            => BagCardinality(logs') = BagCardinality(logs) + Len(captures)
     /\ (btnDelete \/ btnReorderUp \/ btnReorderDown)
            => BagCardinality(logs') = BagCardinality(logs) + 1]_vars

\* a log that holds an entry of each of the four kinds
C18_Witness ==
  LogKinds = {"create_doc", "add_image", "delete_image", "reorder_images"}

(* ---------------- C19: admission --------------------------------------- *)
\* C19: an image that has been through take or onFilePicked is admitted
\* exactly when its longer edge is at least 1500 and the score of its
\* re-encoded form is at least 60 (an image re-encoded to no pixels has no
\* score); the resolution check gives the same verdict on the size before
\* and after the re-encoding.
C19_Admission ==
  gate.pc \in {"video", "file"} =>
    /\ gate.admitted <=>
         /\ Longer(gate.w, gate.h) >= MinEdge
         /\ gate.score >= MinScore
         /\ gate.out.w > 0 /\ gate.out.h > 0
    /\ gate.out # NoResult =>
         (Longer(gate.out.w, gate.out.h) < MinEdge <=> Longer(gate.w, gate.h) < MinEdge)

\* an image larger than the re-encoding limit has been admitted
C19_Witness ==
  /\ gate.pc \in {"video", "file"} /\ gate.admitted
  /\ Longer(gate.w, gate.h) > max /\ gate.score = MinScore

(* ---------------- C20: the re-encoding size ---------------------------- *)
\* C20: an image whose longer edge is at most 2500 keeps its size; a larger
\* one comes out with the longer edge 2500 and the other edge within one
\* pixel of shorter * 2500 / longer; no edge comes out larger than it went
\* in; 4000 x 3000 gives 2500 x 1875.
C20_Rescale ==
  gate.pc = "drawn" =>
    LET L  == Longer(gate.w, gate.h)
        S  == Shorter(gate.w, gate.h)
        oS == IF gate.w >= gate.h THEN gate.out.h ELSE gate.out.w
        oL == IF gate.w >= gate.h THEN gate.out.w ELSE gate.out.h
    IN /\ L <= max => gate.out = [w |-> gate.w, h |-> gate.h]
       /\ L > max => /\ oL = max
                     /\ oS * L - S * max <= L
                     /\ S * max - oS * L <= L
       /\ gate.out.w <= gate.w /\ gate.out.h <= gate.h
       /\ (gate.w = 4000 /\ gate.h = 3000) => gate.out = [w |-> 2500, h |-> 1875]

\* 4000 x 3000 has been re-encoded
C20_Witness ==
  gate.pc = "drawn" /\ gate.w = 4000 /\ gate.h = 3000 /\ gate.out.w = max

(* ---------------- C21: a flat image is blurry -------------------------- *)
\* C21: for every flat bitmap of at least 3 x 3 pixels laplacianVariance
\* returns the score 0, and validateBlob rejects the bitmap, also when its
\* longer edge is 1500 or more.
C21_FlatScoresZero ==
  (gate.pc = "scored" /\ gate.bmp.kind = "flat" /\ gate.w >= 3 /\ gate.h >= 3) =>
    /\ ~gate.score.nan /\ gate.score.num = 0
    /\ ~gate.ok

(* ---------------- C22: the size stored with a page --------------------- *)
\* C22: width_px and height_px of every stored page are the pixel size of
\* the stored image, after the downscaling and any rotation, so neither is
\* above 2500.
C22_StoredSize ==
  \A img \in images :
    /\ meta[img.id].w = meta[img.id].px.w
    /\ meta[img.id].h = meta[img.id].px.h
    /\ Longer(meta[img.id].w, meta[img.id].h) <= max

(* ---------------- C23: nothing is stored before Done ------------------- *)
\* the add_image entries of the log
AddImageLogs == {l \in BagToSet(logs) : l.action = "add_image"}

\* a saveAll invocation goes from the result of listImages to its writes
SaveAllWrites ==
  \E i \in 1..Len(saves) :
    saves[i].pc = "list" /\ Len(saves') = Len(saves) /\ saves'[i].pc = "refresh"

\* C23: pages and add_image entries are written by saveAll only, after Done:
\* a rejected image, a capture still being validated, a session abandoned or
\* reopened for another document leave inbound_images and the add_image
\* entries as they are; every stored page was admitted and belongs to the
\* document the dialog was open for when it was captured.
C23_StoredAfterDone ==
  [][/\ ~SaveAllWrites => images' = images /\ AddImageLogs' = AddImageLogs
     /\ \A p \in images' : meta'[p.id].ok /\ p.inbound_id = meta'[p.id].doc]_vars

(* ---------------- C29: the hash goes with the bytes -------------------- *)
\* the blobs held by a capture or by a stored page
HeldBlobs == {captures[k].blob : k \in 1..Len(captures)} \cup {p.id : p \in images}

\* C29: the hash recorded with every capture and every stored page is the
\* digest of the blob held with it; a record made by rotateLast has the
\* recorded width and height of the capture it rotated swapped, and is held
\* without a new admission, as that capture was.
C29_HashOfBytes ==
  \A b \in HeldBlobs :
    /\ meta[b].sha256 = b
    /\ meta[b].from # 0 =>
         /\ meta[b].w = meta[meta[b].from].h
         /\ meta[b].h = meta[meta[b].from].w
         /\ meta[b].ok = meta[meta[b].from].ok

\* a rotated capture has been stored as a page
C29_Witness ==
  \E p \in images : meta[p.id].from # 0 /\ meta[p.id].w # meta[p.id].h

DistinctLines ==
  \A l1, l2 \in cart : (l1.name = l2.name /\ l1.note = l2.note) => l1 = l2

\* C26: an export of a cart of distinct lines writes the lines in the order
\* in which they were first added, whatever their ids, and no export
\* changes a collection.
C26_ExportOrder ==
  [][exported' # exported =>
       /\ DistinctLines =>
            [k \in 1..Len(exported'.rows) |-> exported'.rows[k].id] = order
       /\ UNCHANGED <<docs, images, logs, cart,
                 swVars>>]_vars

(* ---------------- C28: one line per name and note ---------------------- *)
\* C28: when no Cart.add is in flight, the cart holds one line for every
\* (name, note) added, and its qty is the sum of the quantities added.
C28_OneLinePerKey ==
  adds = << >> =>
    \A key \in CartKeys :
      LET lines == {l \in cart : l.name = key.name /\ l.note = key.note}
      IN IF added[key] = 0 THEN lines = {}
         ELSE Cardinality(lines) = 1 /\ \A l \in lines : l.qty = added[key]

(* ---------------- C24: one board item per zone, name and note --------- *)
\* no two items of the board share zone, name and note
NoTwinItems ==
  \A x \in dnd_items : \A y \in dnd_items :
    (x.zone = y.zone /\ x.name = y.name /\ x.note = y.note) => x.id = y.id

C25_QtyNatural ==
  /\ \A x \in dnd_items : x.qty \in Nat
  /\ \A l \in cart : l.qty \in Nat

\* one cart line was edited down to 0 and one up to 12, and an item of the
\* seeded board was dropped with the question for the amount
C25_Witness ==
  /\ \E l \in cart : l.qty = 0
  /\ \E l \in cart : l.qty = 12
  /\ dnd_items # {} /\ lastOp.op = "drop" /\ lastOp.asked

(* ---------------- C27: the admin role --------------------------------- *)
\* C27: the admin flag turns true only in a login whose PIN hashes to the
\* stored verifier, so a login without a verifier or with another PIN leaves it
\* false; the verifier is never the PIN itself; and a setting is written only
\* while the flag is true.
C27_AdminGate ==
  [][/\ (admin' /\ ~admin) =>
          /\ lastLogin'.n # lastLogin.n
          /\ pinHash # << >>
          /\ pinHash = sha256(lastLogin'.pin)
     /\ pinHash' \in {<< >>} \cup {sha256(p) : p \in PinTexts}
     /\ settings' # settings => admin]_vars

\* a login was tried without a verifier, a toggle was changed without the
\* role: the flag is false, the box is back and no setting is stored
C27_Witness ==
  /\ lastLogin.n > 0 /\ pinHash = << >> /\ ~admin
  /\ flips > 0 /\ settings = {} /\ ~toggles.home_lock /\ ~toggles.override

(* ---------------- C31: moves conserve quantity ------------------------ *)
\* the sum of qty over the items of a store with a name and a note
RECURSIVE SumQty(_, _, _)
SumQty(store, name, note) ==
  LET same == {x \in store : x.name = name /\ x.note = note}
  IN IF same = {} THEN 0
     ELSE LET x == CHOOSE y \in same : TRUE
          IN x.qty + SumQty(store \ {x}, name, note)

\* C31: every step leaves the sum of qty per name and note as it is, and a
\* drop without a question for the amount is a full move: the dropped item is
\* in the target zone afterwards and nothing else about the board has changed.
C31_MoveConserves ==
  [][/\ \A x \in dnd_items :
          dnd_items # {} /\ dnd_items' # {} =>
            SumQty(dnd_items', x.name, x.note) = SumQty(dnd_items, x.name, x.note)
     /\ (lastOp'.n # lastOp.n /\ lastOp'.op = "drop" /\ ~lastOp'.asked) =>
          dnd_items' = {[x EXCEPT !.zone = IF x.id = lastOp'.id
                                           THEN lastOp'.zone ELSE @] :
                          x \in dnd_items}]_vars

(* ---------------- C32: log entries and stored pages agree ------------- *)
\* the add_image entry of a stored page
AddImageEntry(p) ==
  [action |-> "add_image", inbound_id |-> p.inbound_id, image_id |-> p.id]

\* C32: every add_image entry a step appends names a page that the step has
\* stored under the entry's document, so a rejected insert appends none, and
\* every page a step stores has exactly one add_image entry.
C32_LogsMatchPages ==
  [][/\ \A e \in AddImageLogs' :
          CopiesIn(e, logs') > CopiesIn(e, logs) =>
            \E p \in images' : AddImageEntry(p) = e
     /\ \A p \in images' :
          (\A q \in images : q.id # p.id) =>
            CopiesIn(AddImageEntry(p), logs') = 1]_vars

(* ---------------- C33: the service worker ----------------------------- *)
\* the step is the start of a fetch handler for a GET
GetSeen == Len(reqs') > Len(reqs)

\* the step is the end of the network's part of a fetch handler
NetSeen == Len(reqs') < Len(reqs)

\* what C33 says apart from the copies: a request that is not a GET is left
\* to the browser; a GET the cache holds a response for is answered with that
\* response; a GET it holds none for is answered with the network's response;
\* once the worker is activated CACHE is the only cache
WorkerAnswers ==
  /\ (lastAnswer'.n # lastAnswer.n /\ ~GetSeen) =>
        lastAnswer'.by = "browser" /\ lastAnswer'.method # "GET" /\ cache' = cache
  /\ GetSeen =>
       LET q == reqs'[Len(reqs')]
       IN /\ q.cached = cache[q.url]
          /\ q.cached # NoResponse =>
               /\ lastAnswer'.by = "cache" /\ lastAnswer'.url = q.url
               /\ lastAnswer'.resp = q.cached
  /\ (NetSeen /\ lastAnswer'.had = NoResponse /\ lastAnswer'.net # NoResponse) =>
       /\ lastAnswer'.by = "network" /\ lastAnswer'.url = lastAnswer'.neturl
       /\ lastAnswer'.resp = lastAnswer'.net
  /\ swState' = "activated" => cacheNames' = {CACHE}

\* C33 as stated: the worker answers as above, and a copy of every
\* successful network response is in the cache afterwards.
C33_WorkerCaches ==
  [][/\ WorkerAnswers
     /\ (NetSeen /\ Successful(lastAnswer'.net)) =>
          cache'[lastAnswer'.neturl] = lastAnswer'.net]_vars

\* C33 amended: the worker answers as above; a copy of every network
\* response, whatever its status, is in the cache afterwards, except that a
\* partial response (206) and one varying on "*" are passed on and leave the
\* cache as it was.
C33_WorkerCachesAccepted ==
  [][/\ WorkerAnswers
     /\ (NetSeen /\ lastAnswer'.net # NoResponse) =>
          cache'[lastAnswer'.neturl] =
            IF lastAnswer'.net.status = 206 \/ lastAnswer'.net.vary = "*"
            THEN cache[lastAnswer'.neturl] ELSE lastAnswer'.net
     /\ (NetSeen /\ lastAnswer'.net = NoResponse) => cache' = cache]_vars

\* an uncached GET was answered with a partial response from the network and
\* the cache still holds nothing for it, in the activated worker that has
\* cleared the older caches
C33_Witness ==
  /\ swState = "activated" /\ cacheNames = {CACHE}
  /\ lastAnswer.by = "network" /\ lastAnswer.resp.status = 206
  /\ cache[lastAnswer.url] = NoResponse

====
